---- MODULE Spec2Model ----
(***************************************************************************)
(* A model of fetch-proxy (BackendStack21/fetch-proxy): the FetchProxy     *)
(* request pipeline of src/src/proxy.ts with its lifecycle hooks, and the  *)
(* CircuitBreaker of src/src/url-cache.ts that protects the outbound call. *)
(*                                                                         *)
(* One proxy() call is a sequence of steps, one per stretch of code that   *)
(* runs between two awaits.  A hook is invoked, and its outcome (returns   *)
(* or throws) chosen, in the step that reaches its call site; time passes  *)
(* between steps (Tick).                                                   *)
(***************************************************************************)
EXTENDS Integers, Sequences, FiniteSets, TLC

VARIABLES
    cfg,              \* FetchProxy.options / CircuitBreaker.options (set by the constructor)
    now,              \* Date.now()
    state,            \* CircuitBreaker.state
    failures,         \* CircuitBreaker.failures
    lastFailureTime,  \* CircuitBreaker.lastFailureTime
    call,             \* one record per proxy() call slot
    hist,             \* history of the run (counters the properties read)
    cache,            \* URLCache.cache: the Map's entries, in insertion order
    out               \* what the last direct URLCache call did and returned

vars == <<cfg, now, state, failures, lastFailureTime, call, hist, cache, out>>

----------------------------------------------------------------------------
(* Bounds *)

MaxCalls == 3          \* proxy() calls made in one run
MaxThreshold == 2      \* failureThreshold is drawn from 1..MaxThreshold
MaxResetTimeout == 1   \* resetTimeout is drawn from 1..MaxResetTimeout (clock units)
MaxRequestCalls == 2   \* proxy() calls made in one run of SpecRequests
MaxConcurrentCalls == 3    \* proxy() calls that return in one run of SpecConcurrent
MaxBreakerCalls == 4       \* execute() calls that settle in one run of SpecBreaker
MaxCacheSize == 2      \* the capacity of the cache is drawn from 0..MaxCacheSize
MaxMethodLen == 3      \* tokens of a method string given to validateHttpMethod
MaxLeadLen == 3        \* slashes, backslashes and spaces a source given to buildURL begins with
MaxPathLen == 6        \* tokens of a path given to normalizeSecurePath
MaxValueLen == 2       \* tokens of a header or query name or value given to the validators

Slots == {1}           \* call slots of the sequential specification

DefaultCacheURLs == 100    \* cacheURLs when the option is absent

\* Date.now() at construction: far beyond any resetTimeout, as the epoch clock is.
Epoch == MaxResetTimeout + 1

----------------------------------------------------------------------------
(* Values *)

Hooks == {"beforeRequest", "beforeCircuitBreakerExecution", "afterResponse",
          "afterCircuitBreakerExecution", "onError"}

Methods == {<<"GET">>, <<"CONNECT">>}

\* representative outbound statuses: success, not-modified (3xx), server error
UpstreamStatuses == {200, 304, 500}

\* what the outbound fetch can do: answer, reject (network), be aborted by the call-level timer
FetchOutcomes == [kind : {"response"}, status : UpstreamStatuses]
                 \cup {[kind |-> "neterr", status |-> 0], [kind |-> "abort", status |-> 0]}

\* Error messages are sequences of words, so that String.includes is computed.
Err(n, m) == [name |-> n, message |-> m]
NoError == Err("none", <<>>)
CircuitOpenError == Err("Error", <<"Circuit", "breaker", "is", "OPEN">>)
CircuitTimeoutError == Err("Error", <<"Circuit", "breaker", "timeout">>)
RequestTimeoutError == Err("Error", <<"Request", "timeout">>)
ServerError == Err("Error", <<"Server", "error:">>)
NetworkError == Err("TypeError", <<"fetch", "failed">>)
AbortError == Err("AbortError", <<"The", "operation", "was", "aborted">>)
HookError == Err("Error", <<"Hook", "error">>)
HookTimeoutError == Err("Error", <<"Hook", "timeout">>)
MethodNotAllowedError(method) ==
    Err("Error", <<"HTTP", "method">> \o method \o <<"is", "not", "allowed">>)

NoResult == [kind |-> "none", status |-> 0]
NoOutcome == [kind |-> "none", status |-> 0]
Upstream(s) == [kind |-> "upstream", status |-> s]
Synthesized(s) == [kind |-> "synthesized", status |-> s]
Rejected == [kind |-> "rejected", status |-> 0]

\* String.prototype.includes on word sequences
Includes(msg, pat) ==
    \E i \in 1..(Len(msg) - Len(pat) + 1) : SubSeq(msg, i, i + Len(pat) - 1) = pat

----------------------------------------------------------------------------
(* CircuitBreaker (src/src/url-cache.ts).  The operators work on a record   *)
(* of the three fields; Breaker is the record of the current fields.       *)
(* URLCache, of the same file, follows the validators below.               *)

Breaker == [state |-> state, failures |-> failures, lastFailureTime |-> lastFailureTime]

\* getState() that leaves OPEN as soon as resetTimeout is reached (>= for >)
getState_AtResetTimeout(b, t) ==
    IF b.state = "OPEN" /\ t - b.lastFailureTime >= cfg.resetTimeout
    THEN [b EXCEPT !.state = "HALF_OPEN"]
    ELSE b

\* getState(): OPEN reads as HALF_OPEN, and becomes it, once the reset window has passed
getState(b, t) ==
    IF b.state = "OPEN" /\ t - b.lastFailureTime > cfg.resetTimeout
    THEN [b EXCEPT !.state = "HALF_OPEN"]
    ELSE b

getFailures(b) == b.failures

\* recordFailure() that stamps only the failures recorded while CLOSED
recordFailure_StampsWhenClosed(b, t) ==
    LET f == b.failures + 1
        l == IF b.state = "CLOSED" THEN t ELSE b.lastFailureTime
    IN  [state |-> IF f >= cfg.failureThreshold THEN "OPEN" ELSE b.state,
         failures |-> f,
         lastFailureTime |-> l]

\* recordFailure() that stamps every failure, also one recorded while OPEN
recordFailure_AlwaysStamps(b, t) ==
    LET f == b.failures + 1
    IN  [state |-> IF f >= cfg.failureThreshold THEN "OPEN" ELSE b.state,
         failures |-> f,
         lastFailureTime |-> t]

\* recordFailure() opening the circuit one failure late (> for >=)
recordFailure_OpensLate(b, t) ==
    LET f == b.failures + 1
        l == IF b.state # "OPEN" THEN t ELSE b.lastFailureTime
    IN  [state |-> IF f > cfg.failureThreshold THEN "OPEN" ELSE b.state,
         failures |-> f,
         lastFailureTime |-> l]

recordFailure(b, t) ==
    LET f == b.failures + 1
        l == IF b.state # "OPEN" THEN t ELSE b.lastFailureTime
    IN  [state |-> IF f >= cfg.failureThreshold THEN "OPEN" ELSE b.state,
         failures |-> f,
         lastFailureTime |-> l]

\* reset() that zeroes the failure count and leaves the state
reset_CounterOnly(b) == [b EXCEPT !.failures = 0]

\* reset() that closes the circuit and keeps the failure count
reset_KeepsFailures(b) == [b EXCEPT !.state = "CLOSED"]

reset(b) == [b EXCEPT !.failures = 0, !.state = "CLOSED"]

\* execute() admitting the trial as soon as resetTimeout is reached (>= for >)
executeAdmit_TrialEarly(b, t) ==
    IF ~cfg.enabled
    THEN [admitted |-> TRUE, b |-> b]
    ELSE IF b.state = "OPEN"
         THEN IF t - b.lastFailureTime >= cfg.resetTimeout
              THEN [admitted |-> TRUE, b |-> [b EXCEPT !.state = "HALF_OPEN"]]
              ELSE [admitted |-> FALSE, b |-> b]
         ELSE [admitted |-> TRUE, b |-> b]

\* execute(), up to the call of fn: is the operation admitted, and the breaker then
executeAdmit(b, t) ==
    IF ~cfg.enabled
    THEN [admitted |-> TRUE, b |-> b]
    ELSE IF b.state = "OPEN"
         THEN IF t - b.lastFailureTime > cfg.resetTimeout
              THEN [admitted |-> TRUE, b |-> [b EXCEPT !.state = "HALF_OPEN"]]
              ELSE [admitted |-> FALSE, b |-> b]
         ELSE [admitted |-> TRUE, b |-> b]

\* execute() that tracks the outcome although the breaker is disabled
executeSettle_TracksWhenDisabled(b, t, ok) ==
    IF ok
    THEN IF b.state = "HALF_OPEN" THEN reset(b) ELSE b
    ELSE recordFailure(b, t)

\* execute(), once the race has settled: ok is TRUE when fn won and resolved
executeSettle(b, t, ok) ==
    IF ~cfg.enabled
    THEN b
    ELSE IF ok
         THEN IF b.state = "HALF_OPEN" THEN reset(b) ELSE b
         ELSE recordFailure(b, t)

----------------------------------------------------------------------------
(* Validation and error classification *)

(* Strings the validators inspect are sequences of tokens: words, and the  *)
(* tokens below for the characters the code looks for.                     *)

CRLF == "\r"           \* a carriage return, a line feed or a null byte
SP == " "              \* whitespace, or another separator of RFC 7230

Has(s, t) == \E i \in 1..Len(s) : s[i] = t

StartsWith(s, p) == Len(s) >= Len(p) /\ SubSeq(s, 1, Len(p)) = p

\* a method string tells the three characters of CRLF apart, as trim() does
CR == "\r"
LF == "\n"
NUL == "\\0"
TAB == "\t"

\* what String.prototype.trim strips and /\s/ matches: white space and line terminators
WhiteSpace == {SP, TAB, CR, LF}

\* s.includes("\r") || s.includes("\n") || s.includes("\0")
HasForbidden(s) == Has(s, CR) \/ Has(s, LF) \/ Has(s, NUL)

AllowedHttpMethods == {"GET", "POST", "PUT", "PATCH", "DELETE", "HEAD", "OPTIONS"}

\* the words of method strings, each a whole method name in some letter case
MethodWords == {"GET", "get", "Get", "CONNECT", "connect", "TRACE", "Trace"}

\* String.prototype.toUpperCase, token by token
toUpperCaseToken(t) ==
    CASE t \in {"get", "Get"} -> "GET"
      [] t = "connect" -> "CONNECT"
      [] t = "Trace" -> "TRACE"
      [] OTHER -> t

toUpperCase(s) == [i \in 1..Len(s) |-> toUpperCaseToken(s[i])]

RECURSIVE trimStart(_)
trimStart(s) == IF s # <<>> /\ Head(s) \in WhiteSpace THEN trimStart(Tail(s)) ELSE s

RECURSIVE trimEnd(_)
trimEnd(s) ==
    IF s # <<>> /\ s[Len(s)] \in WhiteSpace THEN trimEnd(SubSeq(s, 1, Len(s) - 1)) ELSE s

\* String.prototype.trim
trim(s) == trimEnd(trimStart(s))

\* validateHttpMethod that compares the method as it was given
validateHttpMethod_CaseSensitive(method) ==
    IF Len(method) = 1 /\ method[1] \in AllowedHttpMethods
    THEN NoError
    ELSE MethodNotAllowedError(method)

\* validateHttpMethod (utils.ts 386-459): NoError when the method passes, the thrown
\* error otherwise.  The membership test is of the whole normalized string: the one
\* word left after trimming.
validateHttpMethod(method) ==
    LET normalizedMethod == trim(toUpperCase(method))
    IN  IF method = <<>>
        THEN Err("Error", <<"HTTP", "method", "must", "be", "a", "non-empty", "string">>)
        ELSE IF \/ Has(normalizedMethod, CR)
                \/ Has(normalizedMethod, LF)
                \/ Has(normalizedMethod, NUL)
        THEN Err("Error", <<"HTTP", "method">> \o method \o
                          <<"contains", "forbidden", "characters", "(CRLF", "or", "null",
                            "bytes)">>)
        ELSE IF \E i \in 1..Len(normalizedMethod) : normalizedMethod[i] \in WhiteSpace
        THEN Err("Error", <<"HTTP", "method">> \o method \o
                          <<"contains", "invalid", "characters", "(spaces)">>)
        ELSE IF ~(Len(normalizedMethod) = 1 /\ normalizedMethod[1] \in AllowedHttpMethods)
        THEN MethodNotAllowedError(method)
        ELSE NoError


\* the classification matching a circuit-open message the breaker never produces
errorStatus_OpenUnmatched(e) ==
    IF Includes(e.message, <<"timeout">>) \/ e.name = "TimeoutError" THEN 504
    ELSE IF Includes(e.message, <<"Circuit", "breaker", "open">>) THEN 503
    ELSE IF \/ Includes(e.message, <<"HTTP", "method">>)
            \/ Includes(e.message, <<"Unsupported", "protocol">>)
            \/ Includes(e.message, <<"Protocol", "override", "not", "allowed">>)
            \/ Includes(e.message, <<"Domain", "override", "not", "allowed">>)
            \/ Includes(e.message, <<"Invalid", "header">>)
            \/ Includes(e.message, <<"forbidden", "characters">>)
         THEN 400
    ELSE 502

\* the status of the synthesized response, from the caught error (proxy.ts 187-206)
errorStatus(e) ==
    IF Includes(e.message, <<"Circuit", "breaker", "is", "OPEN">>) THEN 503
    ELSE IF Includes(e.message, <<"timeout">>) \/ e.name = "TimeoutError" THEN 504
    ELSE IF \/ Includes(e.message, <<"HTTP", "method">>)
            \/ Includes(e.message, <<"Unsupported", "protocol">>)
            \/ Includes(e.message, <<"Protocol", "override", "not", "allowed">>)
            \/ Includes(e.message, <<"Domain", "override", "not", "allowed">>)
            \/ Includes(e.message, <<"Invalid", "header">>)
            \/ Includes(e.message, <<"forbidden", "characters">>)
         THEN 400
    ELSE 502

----------------------------------------------------------------------------
(* Header and query validators (src/src/utils.ts 133-381) *)

\* validateHeaderName (utils.ts 133-196); the last test, name === "", is unreachable
validateHeaderName(name) ==
    IF name = <<>>
    THEN Err("Error", <<"Header", "name", "must", "be", "a", "non-empty", "string">>)
    ELSE IF HasForbidden(name)
    THEN Err("Error", <<"Invalid", "header", "name:", "contains", "forbidden", "characters",
                        "(CRLF", "or", "null", "bytes)">>)
    ELSE IF Has(name, SP)
    THEN Err("Error", <<"Invalid", "header", "name:", "contains", "forbidden", "characters">>)
    ELSE NoError

\* validateHeaderValue (utils.ts 201-236), on string values; the message quotes the name
validateHeaderValue(value, headerName) ==
    IF HasForbidden(value)
    THEN Err("Error", <<"Header">> \o headerName \o
                      <<"contains", "forbidden", "characters", "(CRLF", "or", "null", "bytes)">>)
    ELSE NoError

\* recordToHeaders (utils.ts 241-257): the error of the first entry that fails, in
\* the order of Object.entries
RECURSIVE recordToHeaders(_)
recordToHeaders(record) ==
    IF record = <<>>
    THEN NoError
    ELSE LET en == validateHeaderName(Head(record).name)
             ev == validateHeaderValue(Head(record).value, Head(record).name)
         IN  IF en # NoError THEN en
             ELSE IF ev # NoError THEN ev
             ELSE recordToHeaders(Tail(record))

\* validateQueryParamName (utils.ts 262-296)
validateQueryParamName(name) ==
    IF name = <<>>
    THEN Err("Error", <<"Query", "parameter", "name", "must", "be", "a", "non-empty", "string">>)
    ELSE IF HasForbidden(name)
    THEN Err("Error", <<"Query", "parameter", "name">> \o name \o
                      <<"contains", "forbidden", "characters", "(CRLF", "or", "null", "bytes)">>)
    ELSE NoError

\* validateQueryParamValue (utils.ts 301-327)
validateQueryParamValue(value, paramName) ==
    IF HasForbidden(value)
    THEN Err("Error", <<"Query", "parameter">> \o paramName \o
                      <<"value", "contains", "forbidden", "characters", "(CRLF", "or", "null",
                        "bytes)">>)
    ELSE NoError

\* options.queryString: absent, a raw string (text), or a record (entries)
NoQuery == [kind |-> "undefined", text |-> <<>>, entries |-> <<>>]
RawQuery(text) == [kind |-> "string", text |-> text, entries |-> <<>>]
QueryRecord(entries) == [kind |-> "record", text |-> <<>>, entries |-> entries]

\* a parameter whose value is an array of strings
ArrayParam(name, items) == [name |-> name, items |-> items]
IsArray(entry) == "items" \in DOMAIN entry

\* value.forEach (utils.ts 366-370): the error of the first element that fails
RECURSIVE validateQueryItems(_, _)
validateQueryItems(items, paramName) ==
    IF items = <<>>
    THEN NoError
    ELSE LET ev == validateQueryParamValue(Head(items), paramName)
         IN  IF ev # NoError THEN ev ELSE validateQueryItems(Tail(items), paramName)

\* a parameter whose value is an array of strings that none of is looked at
validateQueryEntries_ArraysUnvalidated(entries) ==
    IF entries = <<>>
    THEN NoError
    ELSE validateQueryParamName(Head(entries).name)

\* the loop over Object.entries(params) (utils.ts 362-377)
RECURSIVE validateQueryEntries(_)
validateQueryEntries(entries) ==
    IF entries = <<>>
    THEN NoError
    ELSE LET en == validateQueryParamName(Head(entries).name)
             ev == IF IsArray(Head(entries))
                   THEN validateQueryItems(Head(entries).items, Head(entries).name)
                   ELSE validateQueryParamValue(Head(entries).value, Head(entries).name)
         IN  IF en # NoError THEN en
             ELSE IF ev # NoError THEN ev
             ELSE validateQueryEntries(Tail(entries))

\* URLSearchParams serialisation of one string
encodeToken(t) ==
    CASE t = CR -> "%0D"
      [] t = LF -> "%0A"
      [] t = NUL -> "%00"
      [] OTHER -> t
encode(str) == [i \in 1..Len(str) |-> encodeToken(str[i])]

RECURSIVE pairsOfItems(_, _)
pairsOfItems(name, items) ==
    IF items = <<>> THEN <<>>
    ELSE <<encode(name) \o <<"=">> \o encode(Head(items))>> \o pairsOfItems(name, Tail(items))

RECURSIVE pairsOf(_)
pairsOf(entries) ==
    IF entries = <<>> THEN <<>>
    ELSE (IF IsArray(Head(entries))
          THEN pairsOfItems(Head(entries).name, Head(entries).items)
          ELSE <<encode(Head(entries).name) \o <<"=">> \o encode(Head(entries).value)>>)
         \o pairsOf(Tail(entries))

RECURSIVE joinPairs(_)
joinPairs(pairs) ==
    IF pairs = <<>> THEN <<>>
    ELSE IF Len(pairs) = 1 THEN pairs[1]
    ELSE pairs[1] \o <<"&">> \o joinPairs(Tail(pairs))

\* the string buildQueryString returns when it does not throw (utils.ts 357, 379-380)
queryStringOf(params) ==
    IF params.kind = "string"
    THEN IF StartsWith(params.text, <<"?">>) THEN params.text ELSE <<"?">> \o params.text
    ELSE LET result == joinPairs(pairsOf(params.entries))
         IN  IF result # <<>> THEN <<"?">> \o result ELSE <<>>

\* buildQueryString (utils.ts 332-381), as far as it validates: the error it throws
buildQueryString(params) ==
    IF params.kind = "string"
    THEN IF HasForbidden(params.text)
         THEN Err("Error", <<"Query", "string", "contains", "forbidden", "characters",
                             "(CRLF", "or", "null", "bytes)">>)
         ELSE NoError
    ELSE validateQueryEntries(params.entries)

\* addQueryString (proxy.ts 406-437): `if (!queryString) return url` skips an absent
\* or empty query string
addQueryString(queryString) ==
    IF queryString.kind = "undefined" \/ (queryString.kind = "string" /\ queryString.text = <<>>)
    THEN NoError
    ELSE buildQueryString(queryString)

----------------------------------------------------------------------------
(* URLs.  A URL string is the token sequence <<scheme, "://", host, ...>>, *)
(* a path the sequence <<"/", segment, ...>>; <<>> is the empty string.    *)

AllowedProtocols == {"http", "https"}

NoURL == [protocol |-> "", hostname |-> "", port |-> "", pathname |-> <<>>]

RECURSIVE StripSlashes(_)
StripSlashes(s) == IF s # <<>> /\ Head(s) = "/" THEN StripSlashes(Tail(s)) ELSE s

\* what the URL parser reads as a slash when the scheme is special
SlashLike == {"/", "\\"}

RECURSIVE StripLeading(_, _)
StripLeading(s, T) == IF s # <<>> /\ Head(s) \in T THEN StripLeading(Tail(s), T) ELSE s

\* the scheme as the URL parser keeps it, in lower case
schemeOf(t) ==
    CASE t = "HTTP" -> "http"
      [] t = "FTP" -> "ftp"
      [] OTHER -> t

\* tokens of digits: a scheme begins with a letter, so none of them is one
NumberWords == {"8080"}

\* the port of a URL string ("" when it has none)
portOf(s) == IF Len(s) >= 5 /\ s[4] = ":" THEN s[5] ELSE ""

\* the path of a URL string with a scheme and an authority
pathOf(s) ==
    LET from == IF portOf(s) = "" THEN 4 ELSE 6
    IN  IF Len(s) < from THEN <<"/">> ELSE SubSeq(s, from, Len(s))

\* new URL(input, base): NoURL when the constructor throws.  The parser drops leading
\* spaces; a scheme makes the input absolute, with an authority ("://") or without
\* (":"); with a special-scheme base two leading slashes or backslashes start an
\* authority, and further ones are skipped; a host may not be empty or hold a space
\* or a control character; without a base nothing else parses.
NewURL(input, base) ==
    LET s == StripLeading(input, {SP})
        r == StripLeading(s, SlashLike)
    IN  IF Len(s) >= 3 /\ s[2] = "://"
        THEN [protocol |-> schemeOf(s[1]), hostname |-> s[3], port |-> portOf(s),
              pathname |-> pathOf(s)]
        ELSE IF Len(s) >= 2 /\ s[2] = ":" /\ s[1] \notin NumberWords
        THEN [protocol |-> schemeOf(s[1]), hostname |-> "", port |-> "",
              pathname |-> SubSeq(s, 3, Len(s))]
        ELSE IF base = <<>>
        THEN NoURL
        ELSE IF Len(s) >= 2 /\ s[1] \in SlashLike /\ s[2] \in SlashLike
        THEN IF r = <<>> \/ r[1] \in {SP, CRLF}
             THEN NoURL
             ELSE [protocol |-> base[1], hostname |-> r[1], port |-> "",
                   pathname |-> IF Len(r) = 1 THEN <<"/">> ELSE Tail(r)]
        ELSE [protocol |-> base[1], hostname |-> base[3], port |-> portOf(base),
              pathname |-> IF s = <<>> THEN <<"/">>
                           ELSE IF s[1] \in SlashLike THEN <<"/">> \o Tail(s)
                           ELSE <<"/">> \o s]

\* URL.toString()
urlToString(url) ==
    <<url.protocol, "://", url.hostname>>
    \o (IF url.port = "" THEN <<>> ELSE <<":", url.port>>)
    \o url.pathname

ProtocolOverrideError ==
    Err("Error", <<"Protocol", "override", "not", "allowed", "in", "relative", "URLs">>)
DomainOverrideError ==
    Err("Error", <<"Domain", "override", "not", "allowed", "in", "relative", "URLs">>)
InvalidURLError == Err("TypeError", <<"Invalid", "URL">>)
UnsupportedProtocolError(protocol) ==
    Err("Error", <<"Unsupported", "protocol:", protocol, "Only", "HTTP", "and", "HTTPS",
                   "are", "allowed.">>)

\* buildURL that returns what the URL constructor gives it
buildURL_AnyProtocol(source, base) ==
    LET url == NewURL(source, base)
    IN  IF url = NoURL THEN [e |-> InvalidURLError, url |-> NoURL] ELSE [e |-> NoError, url |-> url]

\* buildURL (utils.ts 29-101): the error thrown (NoError when none) and the URL
buildURL(source, base) ==
    IF base # <<>> /\ StartsWith(source, <<"/", "/">>) /\ ~StartsWith(source, <<"/", "/", "/">>)
    THEN [e |-> ProtocolOverrideError, url |-> NoURL]
    ELSE LET src == IF ~Has(source, "://") /\ StartsWith(source, <<"/">>)
                    THEN <<"/">> \o StripSlashes(source)
                    ELSE source
             url == NewURL(src, base)
         IN  IF url = NoURL
             THEN [e |-> InvalidURLError, url |-> NoURL]
             ELSE IF /\ base # <<>>
                     /\ url.hostname # NewURL(base, <<>>).hostname
                     /\ StartsWith(src, <<"/">>)
                     /\ ~Has(src, "://")
             THEN [e |-> DomainOverrideError, url |-> NoURL]
             ELSE IF url.protocol \notin AllowedProtocols
             THEN [e |-> UnsupportedProtocolError(url.protocol), url |-> NoURL]
             ELSE [e |-> NoError, url |-> url]

----------------------------------------------------------------------------
(* normalizeSecurePath (src/src/utils.ts 468-517).  A path is a sequence of *)
(* "/", "." and words without either; a segment is what lies between two   *)
(* "/", so <<".", ".">> is the segment "..".                               *)

Dot == <<".">>
DotDot == <<".", ".">>

\* String.prototype.split("/"): the segments, empty ones included
RECURSIVE split(_)
split(s) ==
    IF ~Has(s, "/")
    THEN <<s>>
    ELSE LET i == CHOOSE j \in 1..Len(s) : s[j] = "/" /\ \A k \in 1..(j - 1) : s[k] # "/"
         IN  <<SubSeq(s, 1, i - 1)>> \o split(SubSeq(s, i + 1, Len(s)))

\* .filter((segment) => segment !== "" && segment !== ".")
RECURSIVE filterSegments(_)
filterSegments(segments) ==
    IF segments = <<>> THEN <<>>
    ELSE IF Head(segments) \in {<<>>, Dot} THEN filterSegments(Tail(segments))
    ELSE <<Head(segments)>> \o filterSegments(Tail(segments))

\* the loop over the segments (utils.ts 497-506), from normalizedSegments so far
RECURSIVE resolveSegments(_, _)
resolveSegments(segments, normalizedSegments) ==
    IF segments = <<>> THEN normalizedSegments
    ELSE IF Head(segments) = DotDot
    THEN resolveSegments(Tail(segments),
                         IF Len(normalizedSegments) > 0
                         THEN SubSeq(normalizedSegments, 1, Len(normalizedSegments) - 1)
                         ELSE normalizedSegments)
    ELSE resolveSegments(Tail(segments), Append(normalizedSegments, Head(segments)))

\* Array.prototype.join("/")
RECURSIVE join(_)
join(segments) ==
    IF segments = <<>> THEN <<>>
    ELSE IF Len(segments) = 1 THEN segments[1]
    ELSE segments[1] \o <<"/">> \o join(Tail(segments))

PathEmptyError == Err("Error", <<"Path", "must", "be", "a", "non-empty", "string">>)
PrefixEmptyError ==
    Err("Error", <<"Allowed", "prefix", "must", "be", "a", "non-empty", "string">>)
PathNullBytesError == Err("Error", <<"Path", "contains", "null", "bytes">>)
PathTraversalError(allowedPrefix) ==
    Err("Error", <<"Path", "traversal", "attempt", "detected.", "Path", "must", "start",
                   "with:">> \o allowedPrefix)

\* normalizeSecurePath that tests the prefix on the path as given
normalizeSecurePath_PrefixOfInput(inputPath, allowedPrefix) ==
    LET normalizedPath == <<"/">> \o join(resolveSegments(filterSegments(split(inputPath)), <<>>))
    IN  IF trim(inputPath) = <<>> THEN [e |-> PathEmptyError, path |-> <<>>]
        ELSE IF trim(allowedPrefix) = <<>> THEN [e |-> PrefixEmptyError, path |-> <<>>]
        ELSE IF Has(inputPath, NUL) THEN [e |-> PathNullBytesError, path |-> <<>>]
        ELSE IF ~StartsWith(inputPath, allowedPrefix)
        THEN [e |-> PathTraversalError(allowedPrefix), path |-> <<>>]
        ELSE [e |-> NoError, path |-> normalizedPath]

\* normalizeSecurePath: the error thrown (NoError when none) and the path returned
normalizeSecurePath(inputPath, allowedPrefix) ==
    LET normalizedPath == <<"/">> \o join(resolveSegments(filterSegments(split(inputPath)), <<>>))
    IN  IF trim(inputPath) = <<>> THEN [e |-> PathEmptyError, path |-> <<>>]
        ELSE IF trim(allowedPrefix) = <<>> THEN [e |-> PrefixEmptyError, path |-> <<>>]
        ELSE IF Has(inputPath, NUL) THEN [e |-> PathNullBytesError, path |-> <<>>]
        ELSE IF ~StartsWith(normalizedPath, allowedPrefix)
        THEN [e |-> PathTraversalError(allowedPrefix), path |-> <<>>]
        ELSE [e |-> NoError, path |-> normalizedPath]

----------------------------------------------------------------------------
(* URLCache (src/src/url-cache.ts 5-34).  ch is the Map, as the sequence of *)
(* its entries in insertion order; NoURL stands for undefined.             *)

CacheKeys(ch) == [i \in 1..Len(ch) |-> ch[i].key]

HasKey(ch, key) == \E i \in 1..Len(ch) : ch[i].key = key

\* get(key)
urlCacheGet(ch, maxSize, key) ==
    IF maxSize = 0 \/ ~HasKey(ch, key)
    THEN NoURL
    ELSE ch[CHOOSE i \in 1..Len(ch) : ch[i].key = key].url

\* set(key, url): at capacity the first key of the Map is deleted `if (firstKey)`,
\* which an empty Map (undefined) and the empty string fail; Map.set keeps the
\* position of a key it already holds
urlCacheSet(ch, maxSize, key, url) ==
    IF maxSize = 0
    THEN ch
    ELSE LET c1 == IF Len(ch) >= maxSize /\ ch # <<>> /\ ch[1].key # <<>>
                   THEN Tail(ch)
                   ELSE ch
         IN  IF HasKey(c1, key)
             THEN [i \in 1..Len(c1) |->
                     IF c1[i].key = key THEN [key |-> key, url |-> url] ELSE c1[i]]
             ELSE Append(c1, [key |-> key, url |-> url])

\* clear()
urlCacheClear(ch) == <<>>

\* buildTargetURL (proxy.ts 340-356): the error of buildURL, the URL returned (a copy
\* of the cached or built one, through toString), and the cache afterwards
buildTargetURL(ch, maxSize, source, base) ==
    LET cacheKey == base \o <<":">> \o source
        hit      == urlCacheGet(ch, maxSize, cacheKey)
        built    == buildURL(source, base)
    IN  IF hit # NoURL
        THEN [e |-> NoError, url |-> NewURL(urlToString(hit), <<>>), cache |-> ch]
        ELSE IF built.e # NoError
        THEN [e |-> built.e, url |-> NoURL, cache |-> ch]
        ELSE [e |-> NoError, url |-> NewURL(urlToString(built.url), <<>>),
              cache |-> urlCacheSet(ch, maxSize, cacheKey, built.url)]

----------------------------------------------------------------------------
(* ProxyLogger (src/src/logger.ts) *)

LoggerError == Err("Error", <<"Logger", "error">>)

\* the method of the pino logger behind a ProxyLogger method: the error it throws
\* (NoError: none).  A faulty logger throws on every call.
sinkCall == IF cfg.logger = "faulty" THEN LoggerError ELSE NoError

\* a ProxyLogger method without its try/catch
logCall_Uncaught(method) == sinkCall

\* a ProxyLogger method (logger.ts 74-277): the error that reaches its caller.  Each
\* method calls the sink inside try/catch and hands what it catches to console.warn.
logCall(method) ==
    LET thrown == sinkCall
    IN  IF thrown # NoError THEN NoError ELSE NoError

\* the first of two errors that is one
FirstError(e1, e2) == IF e1 # NoError THEN e1 ELSE e2

\* a validator reports to logSecurityEvent before it throws e (utils.ts 40-48 and alike)
securityEvent(e) ==
    IF e # NoError THEN FirstError(logCall("logSecurityEvent"), e) ELSE e

----------------------------------------------------------------------------
(* The request and options executeRequest() works on *)

InboundURL == <<"http", "://", "inbound", "/", "in">>

Header(name, value) == [name |-> name, value |-> value]

\* options.request, a RequestInit: method (<<>>: absent) and headers (hasHeaders: given)
NoInit == [method |-> <<>>, hasHeaders |-> FALSE, headers |-> <<>>]

\* source: the source argument (<<>>: absent); url: req.url; headers: the entries of
\* the instance's and the call's headers options; queryString: options.queryString;
\* request: options.request
PlainRequest ==
    [source |-> <<"/", "api">>, url |-> InboundURL, headers |-> <<>>, queryString |-> NoQuery,
     request |-> NoInit]

\* sources buildURL refuses: a protocol-relative one, one whose backslash the URL
\* parser reads as a slash, one of another scheme
BadSources ==
    { <<"/", "/", "evil", "/", "x">>, <<"/", "\\", "evil", "/", "x">>,
      <<"ftp", "://", "files", "/", "x">> }

\* header entries recordToHeaders refuses
BadHeaders ==
    { Header(<<>>, <<"v">>), Header(<<"x", CRLF>>, <<"v">>),
      Header(<<"x", "id">>, <<"v", CRLF>>), Header(<<"x", "timeout">>, <<"v", CRLF>>) }

\* query strings buildQueryString refuses
BadQueries ==
    { RawQuery(<<"a=1", CRLF>>),
      QueryRecord(<<[name |-> <<"a">>, value |-> <<"1", CRLF>>]>>) }

\* the requests of the model: the plain one, and the plain one with one part replaced
Requests ==
    {PlainRequest}
    \cup {[PlainRequest EXCEPT !.source = s] : s \in BadSources}
    \cup {[PlainRequest EXCEPT !.headers = <<h>>] : h \in BadHeaders}
    \cup {[PlainRequest EXCEPT !.queryString = q] : q \in BadQueries}

\* a call whose method is refused carries the plain request (one part replaced)
RequestsOf(method) ==
    IF validateHttpMethod(method) = NoError THEN Requests ELSE {PlainRequest}

NoRequest == [PlainRequest EXCEPT !.source = <<>>, !.url = <<>>]

\* prepareHeaders (proxy.ts 358-383): the configured entries, then x-forwarded-host.
\* The entries copied from req.headers come from a Headers object and pass validation.
prepareHeaders(r) ==
    r.headers \o <<Header(<<"x", "forwarded", "host">>, <<NewURL(r.url, <<>>).hostname>>)>>

\* prepareRequestOptions that takes nothing from options.request
prepareRequestOptions_Validated(method, headers, init) ==
    [method |-> method, headers |-> headers]

\* prepareRequestOptions (proxy.ts 385-404): the method and the headers of the
\* RequestInit handed to fetch.  `...options.request` comes last in the object
\* literal, so what it holds replaces req.method and the validated headers.  The
\* body is not part of the model.
prepareRequestOptions(method, headers, init) ==
    [method |-> IF init.method # <<>> THEN init.method ELSE method,
     headers |-> IF init.hasHeaders THEN init.headers ELSE headers]

\* nothing handed to fetch
NoSent == [method |-> <<>>, headers |-> <<>>]

\* executeRequest() that validates the method and the target only
executeRequestBuild_HeadersUnvalidated(method, r, ch) ==
    LET vm == securityEvent(validateHttpMethod(method))
        bt == buildTargetURL(ch, cfg.cacheURLs, IF r.source # <<>> THEN r.source ELSE r.url,
                             cfg.base)
    IN  IF vm # NoError THEN [e |-> vm, url |-> NoURL, cache |-> ch]
        ELSE IF bt.e # NoError THEN [bt EXCEPT !.e = securityEvent(bt.e)]
        ELSE bt

\* executeRequest() up to the call of fetch (proxy.ts 225-270): the error thrown by
\* the first validation that fails, the target URL, and the cache afterwards
executeRequestBuild(method, r, ch) ==
    LET vm == securityEvent(validateHttpMethod(method))
        bt == buildTargetURL(ch, cfg.cacheURLs, IF r.source # <<>> THEN r.source ELSE r.url,
                             cfg.base)
        lc == logCall("logCacheEvent")
        vh == securityEvent(recordToHeaders(prepareHeaders(r)))
        vq == securityEvent(addQueryString(r.queryString))
    IN  IF vm # NoError THEN [e |-> vm, url |-> NoURL, cache |-> ch]
        ELSE IF bt.e # NoError THEN [bt EXCEPT !.e = securityEvent(bt.e)]
        ELSE IF lc # NoError THEN [e |-> lc, url |-> NoURL, cache |-> bt.cache]
        ELSE IF vh # NoError THEN [e |-> vh, url |-> NoURL, cache |-> bt.cache]
        ELSE IF vq # NoError THEN [e |-> vq, url |-> NoURL, cache |-> bt.cache]
        ELSE bt

----------------------------------------------------------------------------
(* One proxy() call *)

\* pc: where proxy() stands; supplied: the hooks in options; hookLog: the hooks invoked,
\* in order; threw: the hooks that threw; err: the error caught by proxy(); onErrorArg:
\* the error handed to onError; fetched: the outcome of fetch; fn: the operation handed
\* to the breaker ("fetching" while fetch is pending); exec: how execute() settled
\* ("open": refused); inWindow: execute() was called no later than resetTimeout after
\* the last recorded failure; result: what proxy() returned; request: the request and
\* options executeRequest() found; target: the URL handed to fetch; trial: execute()
\* awaits the race of an operation it admitted as HALF_OPEN; raceTimer: the timer of
\* execute()'s race (url-cache.ts 76-79); abortTimer: the timer of executeRequest()
\* (proxy.ts 266-269), each "none", "pending", "cleared" or "fired"; sent: the method
\* and headers of the RequestInit handed to fetch
NewCall(supplied, method) ==
    [pc |-> "start", supplied |-> supplied, method |-> method, hookLog |-> <<>>,
     threw |-> {}, err |-> NoError, onErrorArg |-> NoError, fetched |-> NoOutcome,
     fn |-> "none", exec |-> "none", inWindow |-> FALSE, result |-> NoResult,
     request |-> NoRequest, target |-> NoURL, trial |-> FALSE, raceTimer |-> "none",
     abortTimer |-> "none", sent |-> NoSent]

IdleCall == [NewCall({}, <<"GET">>) EXCEPT !.pc = "idle"]

\* the outcomes a call of hook h can have in call k: TRUE when it throws
Throws(k, h) == IF h \in k.supplied THEN BOOLEAN ELSE {FALSE}

\* what a hook throws: any error, here one with a neutral message and one whose
\* message holds a word the classification of proxy.ts 187-206 looks for
HookErrors == {HookError, HookTimeoutError}

\* the errors to consider for a hook whose outcome is t
Thrown(t) == IF t THEN HookErrors ELSE {HookError}

\* `if (options.h) await options.h(...)`: the hook h is invoked when supplied, and
\* throws when t says so
invoke(k, h, t) ==
    IF h \in k.supplied
    THEN [k EXCEPT !.hookLog = Append(@, h),
                   !.threw = IF t THEN @ \cup {h} ELSE @]
    ELSE k

Threw(k, h, t) == h \in k.supplied /\ t

\* a catch block that answers a refused call without telling onError
catchOnError_SilentWhenOpen(k, e, t) ==
    LET k1 == [k EXCEPT !.err = e]
        k2 == [invoke(k1, "onError", t) EXCEPT
                  !.onErrorArg = IF "onError" \in k.supplied THEN e ELSE @]
    IN  IF e = CircuitOpenError
        THEN [k1 EXCEPT !.pc = "catchAfterCircuitBreaker"]
        ELSE IF Threw(k, "onError", t)
             THEN [k2 EXCEPT !.pc = "done", !.result = Rejected]
             ELSE [k2 EXCEPT !.pc = "catchAfterCircuitBreaker"]

\* the catch block of proxy() up to `await options.onError(req, err)` (proxy.ts
\* 148-172): the two log calls, which end proxy() should one throw, then the hook
catchOnError(k, e, t) ==
    LET k1 == [k EXCEPT !.err = e]
        k2 == [invoke(k1, "onError", t) EXCEPT
                  !.onErrorArg = IF "onError" \in k.supplied THEN e ELSE @]
        le == FirstError(logCall("logCircuitBreakerEvent"), logCall("logRequestError"))
    IN  IF le # NoError
        THEN [k EXCEPT !.err = le, !.pc = "done", !.result = Rejected]
        ELSE IF Threw(k, "onError", t)
        THEN [k2 EXCEPT !.pc = "done", !.result = Rejected]
        ELSE [k2 EXCEPT !.pc = "catchAfterCircuitBreaker"]

\* the rest of the catch block: the afterCircuitBreakerExecution hook, then the
\* synthesized response (proxy.ts 174-206)
catchRespond(k, t) ==
    LET k1 == invoke(k, "afterCircuitBreakerExecution", t)
    IN  IF Threw(k, "afterCircuitBreakerExecution", t)
        THEN [k1 EXCEPT !.pc = "done", !.result = Rejected]
        ELSE [k1 EXCEPT !.pc = "done", !.result = Synthesized(errorStatus(k.err))]

\* the try block of proxy() after execute() has resolved with the response of
\* status s: the afterCircuitBreakerExecution hook, then `return response`
\* (proxy.ts 111-147); he is what the hook throws when it does, te the outcome of
\* onError should the hook throw
afterExecute(k, s, t, he, te) ==
    LET k1 == invoke(k, "afterCircuitBreakerExecution", t)
    IN  IF logCall("logCircuitBreakerEvent") # NoError
        THEN catchOnError(k, logCall("logCircuitBreakerEvent"), te)
        ELSE IF Threw(k, "afterCircuitBreakerExecution", t)
        THEN catchOnError(k1, he, te)
        ELSE IF logCall("logPerformanceMetrics") # NoError
        THEN catchOnError(k1, logCall("logPerformanceMetrics"), te)
        ELSE [k1 EXCEPT !.pc = "done", !.result = Upstream(s)]

\* the catch block of executeRequest(): an AbortError becomes "Request timeout",
\* any other error is rethrown, after logRequestError (proxy.ts 307-337); NoError
\* when nothing was thrown
executeRequestCatch(e) ==
    IF e = NoError THEN NoError
    ELSE FirstError(logCall("logRequestError"),
                    IF e.name = "AbortError" THEN RequestTimeoutError ELSE e)

\* the operation without the 5xx check of proxy.ts 104-106
operationSettle_NoServerError(k, o, t, he) ==
    IF o.kind = "response"
    THEN IF ~cfg.followRedirects /\ o.status >= 300 /\ o.status < 400
         THEN [k |-> k, e |-> NoError]
         ELSE LET k1 == invoke(k, "afterResponse", t)
              IN  IF Threw(k, "afterResponse", t)
                  THEN [k |-> k1, e |-> executeRequestCatch(he)]
                  ELSE [k |-> k1, e |-> NoError]
    ELSE IF o.kind = "abort"
         THEN [k |-> k, e |-> executeRequestCatch(AbortError)]
         ELSE [k |-> k, e |-> executeRequestCatch(NetworkError)]

\* executeRequest() from the settling of fetch, and the 5xx check of the operation
\* handed to the breaker (proxy.ts 94-109, 272-306): the call record, and the
\* error the operation rejects with (NoError when it resolves); he is what the
\* afterResponse hook throws when it does
operationSettle(k, o, t, he) ==
    IF o.kind = "response"
    THEN IF logCall("logRequestSuccess") # NoError
         THEN [k |-> k, e |-> executeRequestCatch(logCall("logRequestSuccess"))]
         ELSE IF ~cfg.followRedirects /\ o.status >= 300 /\ o.status < 400
         THEN [k |-> k, e |-> NoError]
         ELSE LET k1 == invoke(k, "afterResponse", t)
              IN  IF Threw(k, "afterResponse", t)
                  THEN [k |-> k1, e |-> executeRequestCatch(he)]
                  ELSE IF o.status >= 500
                       THEN [k |-> k1, e |-> ServerError]
                       ELSE [k |-> k1, e |-> NoError]
    ELSE IF o.kind = "abort"
         THEN [k |-> k, e |-> executeRequestCatch(AbortError)]
         ELSE [k |-> k, e |-> executeRequestCatch(NetworkError)]

\* a call that made only allowed requests to an upstream answering 500, no hook throwing
Plain500(k) ==
    /\ k.threw = {}
    /\ validateHttpMethod(k.method) = NoError
    /\ k.err \in {ServerError, CircuitOpenError}

\* the step's effect: the call record, the breaker fields, the history and the cache
CommitCache(c, k, b, h, ch) ==
    /\ call' = [call EXCEPT ![c] = k]
    /\ state' = b.state
    /\ failures' = b.failures
    /\ lastFailureTime' = b.lastFailureTime
    /\ hist' = IF k.pc = "done" /\ call[c].pc # "done"
               THEN [h EXCEPT !.done = @ + 1, !.plain500 = @ /\ Plain500(k)]
               ELSE h
    /\ cache' = ch
    /\ UNCHANGED <<cfg, now, out>>

\* the effect of a step that leaves the cache alone
Commit(c, k, b, h) == CommitCache(c, k, b, h, cache)

----------------------------------------------------------------------------
(* The steps of a proxy() call.  tb, te: does the hook this step reaches    *)
(* throw, and does onError throw should the step end in the catch block.   *)

\* proxy() is called, in a run of at most n calls, with hooks of HookSets and a method
\* of M: up to `await this.executeBeforeRequestHooks` (proxy.ts 60-83)
StartCallWith(c, n, HookSets, M) ==
    /\ call[c].pc = "idle"
    /\ hist.done < n
    /\ \E supplied \in HookSets, method \in M :
         LET k0 == NewCall(supplied, method)
             le == logCall("logRequestStart")
         IN  IF le # NoError
             THEN Commit(c, [k0 EXCEPT !.pc = "done", !.err = le, !.result = Rejected],
                         Breaker, hist)
             ELSE
             \E tb \in Throws(k0, "beforeRequest") :
               LET k1 == invoke(k0, "beforeRequest", tb)
               IN  IF tb
                   THEN \E he \in Thrown(tb), te \in Throws(k0, "onError") :
                          Commit(c, catchOnError(k1, he, te), getState(Breaker, now), hist)
                   ELSE Commit(c, [k1 EXCEPT !.pc = "beforeCircuitBreaker"], Breaker, hist)

StartCallUpTo(c, n) == StartCallWith(c, n, SUBSET Hooks, Methods)

StartCall(c) == StartCallUpTo(c, MaxCalls)

\* up to `await this.executeBeforeCircuitBreakerHooks` (proxy.ts 85-86)
BeforeCircuitBreaker(c) ==
    /\ call[c].pc = "beforeCircuitBreaker"
    /\ \E tb \in Throws(call[c], "beforeCircuitBreakerExecution") :
         LET k  == call[c]
             k1 == invoke(k, "beforeCircuitBreakerExecution", tb)
         IN  IF tb
             THEN \E he \in Thrown(tb), te \in Throws(k, "onError") :
                    Commit(c, catchOnError(k1, he, te), getState(Breaker, now), hist)
             ELSE Commit(c, [k1 EXCEPT !.pc = "execute"], Breaker, hist)

\* the state read for the log, execute() up to the race, and the operation up to
\* `await fetch` (proxy.ts 88-101, 210-275; url-cache.ts 57-81), for a request of R
ExecuteWith(c, R) ==
    /\ call[c].pc = "execute"
    /\ \E r \in R, te \in Throws(call[c], "onError") :
         LET k   == [call[c] EXCEPT !.inWindow = now - lastFailureTime <= cfg.resetTimeout,
                                    !.request = r]
             b1  == getState(Breaker, now)
             adm == executeAdmit(b1, now)
             x   == executeRequestBuild(k.method, r, cache)
             v   == executeRequestCatch(x.e)
             le  == logCall("logCircuitBreakerEvent")
             rt  == IF cfg.enabled THEN "pending" ELSE "none"
         IN  IF le # NoError
             THEN Commit(c, catchOnError(k, le, te), b1, hist)
             ELSE IF ~adm.admitted
             THEN Commit(c, catchOnError([k EXCEPT !.exec = "open"], CircuitOpenError, te),
                         getState(adm.b, now), hist)
             ELSE IF v # NoError
                  THEN CommitCache(c, catchOnError([k EXCEPT !.exec = "rejected",
                                                            !.raceTimer = rt], v, te),
                                   getState(executeSettle(adm.b, now, FALSE), now),
                                   [hist EXCEPT !.execFail = @ + 1], x.cache)
                  ELSE CommitCache(c, [k EXCEPT !.pc = "racing", !.fn = "fetching",
                                                !.target = x.url, !.raceTimer = rt,
                                                !.abortTimer = "pending",
                                                !.sent = prepareRequestOptions(
                                                           k.method, prepareHeaders(r),
                                                           r.request),
                                                !.trial = cfg.enabled
                                                          /\ adm.b.state = "HALF_OPEN"],
                                   adm.b, hist, x.cache)

\* the step for the plain request: of the validations only that of the method can fail
Execute(c) == ExecuteWith(c, {PlainRequest})

\* the step for any request of the model
ExecuteAny(c) == ExecuteWith(c, RequestsOf(call[c].method))

\* fetch settles with outcome o while execute() awaits the race: the rest of the
\* operation, the settling of execute(), and proxy() up to its next await or return
\* (proxy.ts 277-306, 103-147; url-cache.ts 83-91)
FetchSettle(c) ==
    /\ call[c].pc = "racing"
    /\ call[c].fn = "fetching"
    /\ \E o \in FetchOutcomes, ta \in Throws(call[c], "afterResponse"),
          tb \in Throws(call[c], "afterCircuitBreakerExecution"),
          te \in Throws(call[c], "onError") :
       \E ha \in Thrown(ta), hb \in Thrown(tb) :
         LET r  == operationSettle([call[c] EXCEPT !.fetched = o, !.fn = "settled",
                                                   !.trial = FALSE,
                                                   !.abortTimer = IF o.kind = "abort"
                                                                  THEN "fired"
                                                                  ELSE "cleared"],
                                   o, ta, ha)
             ok == r.e = NoError
             b1 == executeSettle(Breaker, now, ok)
             h  == IF ok THEN [hist EXCEPT !.execOk = TRUE]
                         ELSE [hist EXCEPT !.execFail = @ + 1]
         IN  IF ok
             THEN Commit(c, afterExecute([r.k EXCEPT !.exec = "resolved"], o.status, tb, hb, te),
                         getState(b1, now), h)
             ELSE Commit(c, catchOnError([r.k EXCEPT !.exec = "rejected"], r.e, te),
                         getState(b1, now), h)

\* a race timer that can fire only once the operation has settled
BreakerTimeout_AfterOperation(c) ==
    /\ cfg.enabled
    /\ call[c].pc = "racing"
    /\ call[c].fn = "settled"
    /\ \E te \in Throws(call[c], "onError") :
         Commit(c, catchOnError([call[c] EXCEPT !.exec = "rejected", !.trial = FALSE,
                                                !.raceTimer = "fired"],
                                CircuitTimeoutError, te),
                getState(recordFailure(Breaker, now), now),
                [hist EXCEPT !.execFail = @ + 1])

\* the breaker's race timer fires first: execute() rejects with the timeout error,
\* the operation keeps running (url-cache.ts 73-91)
BreakerTimeout(c) ==
    /\ cfg.enabled
    /\ call[c].pc = "racing"
    /\ \E te \in Throws(call[c], "onError") :
         Commit(c, catchOnError([call[c] EXCEPT !.exec = "rejected", !.trial = FALSE,
                                                !.raceTimer = "fired"],
                                CircuitTimeoutError, te),
                getState(recordFailure(Breaker, now), now),
                [hist EXCEPT !.execFail = @ + 1])

\* fetch settles after execute() has already rejected: the operation runs on unobserved
LateFetchSettle(c) ==
    /\ call[c].pc # "racing"
    /\ call[c].fn = "fetching"
    /\ \E o \in FetchOutcomes, ta \in Throws(call[c], "afterResponse") :
         LET r == operationSettle([call[c] EXCEPT !.fn = "settled",
                                                  !.abortTimer = IF o.kind = "abort"
                                                                 THEN "fired"
                                                                 ELSE "cleared"],
                                  o, ta, HookError)
         IN  Commit(c, r.k, Breaker, hist)

\* the catch block after `await options.onError` (proxy.ts 174-206)
CatchAfterCircuitBreaker(c) ==
    /\ call[c].pc = "catchAfterCircuitBreaker"
    /\ \E tb \in Throws(call[c], "afterCircuitBreakerExecution") :
         Commit(c, catchRespond(call[c], tb), getState(Breaker, now), hist)

\* the call has returned and its operation has settled: its context is dropped
Discard(c) ==
    /\ call[c].pc = "done"
    /\ call[c].fn # "fetching"
    /\ call' = [call EXCEPT ![c] = IdleCall]
    /\ UNCHANGED <<cfg, now, state, failures, lastFailureTime, hist, cache, out>>

\* getCircuitBreakerState() (proxy.ts 439-441)
GetCircuitBreakerState ==
    LET b == getState(Breaker, now)
    IN  /\ state' = b.state
        /\ UNCHANGED <<cfg, now, failures, lastFailureTime, call, hist, cache, out>>

\* the clock advances.  The breaker reads the clock only as the time since the
\* last recorded failure, compared with resetTimeout: once that window has passed,
\* later clock values are indistinguishable, and the model stops the clock there.
Tick ==
    /\ now - lastFailureTime <= cfg.resetTimeout
    /\ now' = now + 1
    /\ UNCHANGED <<cfg, state, failures, lastFailureTime, call, hist, cache, out>>

----------------------------------------------------------------------------
(* Specification: proxy() calls made one after the other on one instance *)

BaseURL == <<"http", "://", "base">>

\* the options of the constructor: circuitBreaker.failureThreshold, .resetTimeout
\* and .enabled, followRedirects, base, cacheURLs and logger (proxy.ts 37-53)
Configs ==
    [failureThreshold : 1..MaxThreshold, resetTimeout : 1..MaxResetTimeout,
     enabled : BOOLEAN, followRedirects : BOOLEAN, base : {BaseURL},
     cacheURLs : {DefaultCacheURLs}, logger : {"silent"}]

\* op: the call made; key: its key (for "target" the source argument); req: the URL
\* of the inbound request (for "target"); url: the URL returned (NoURL: undefined)
NoOutput == [op |-> "none", key |-> <<>>, req |-> <<>>, url |-> NoURL]

Init ==
    /\ cfg \in Configs
    /\ now = Epoch
    /\ state = "CLOSED"
    /\ failures = 0
    /\ lastFailureTime = 0
    /\ call = [c \in Slots |-> IdleCall]
    /\ hist = [done |-> 0, execFail |-> 0, execOk |-> FALSE, plain500 |-> TRUE]
    /\ cache = <<>>
    /\ out = NoOutput

Next ==
    \/ \E c \in Slots : StartCall(c)
    \/ \E c \in Slots : BeforeCircuitBreaker(c)
    \/ \E c \in Slots : Execute(c)
    \/ \E c \in Slots : FetchSettle(c)
    \/ \E c \in Slots : BreakerTimeout(c)
    \/ \E c \in Slots : LateFetchSettle(c)
    \/ \E c \in Slots : CatchAfterCircuitBreaker(c)
    \/ \E c \in Slots : Discard(c)
    \/ GetCircuitBreakerState
    \/ Tick

Spec == Init /\ [][Next]_vars

----------------------------------------------------------------------------
(* Specification: proxy() calls with any request of the model *)

StartRequestCall(c) == StartCallUpTo(c, MaxRequestCalls)

NextRequests ==
    \/ \E c \in Slots : StartRequestCall(c)
    \/ \E c \in Slots : BeforeCircuitBreaker(c)
    \/ \E c \in Slots : ExecuteAny(c)
    \/ \E c \in Slots : FetchSettle(c)
    \/ \E c \in Slots : BreakerTimeout(c)
    \/ \E c \in Slots : LateFetchSettle(c)
    \/ \E c \in Slots : CatchAfterCircuitBreaker(c)
    \/ \E c \in Slots : Discard(c)
    \/ GetCircuitBreakerState
    \/ Tick

SpecRequests == Init /\ [][NextRequests]_vars

----------------------------------------------------------------------------
(* Specification: the same calls on an instance whose logger throws *)

InitLogger ==
    /\ cfg \in {[f EXCEPT !.logger = "faulty"] : f \in Configs}
    /\ now = Epoch
    /\ state = "CLOSED"
    /\ failures = 0
    /\ lastFailureTime = 0
    /\ call = [c \in Slots |-> IdleCall]
    /\ hist = [done |-> 0, execFail |-> 0, execOk |-> FALSE, plain500 |-> TRUE]
    /\ cache = <<>>
    /\ out = NoOutput

SpecLogger == InitLogger /\ [][NextRequests]_vars

----------------------------------------------------------------------------
(* Specification: proxy() calls made concurrently on one instance: a call   *)
(* may start, and take its steps, while another awaits.  The calls are GET  *)
(* requests without hooks.                                                 *)

ConcurrentSlots == {1, 2}

StartConcurrentCall(c) == StartCallWith(c, MaxConcurrentCalls, {{}}, {<<"GET">>})

InitConcurrent ==
    /\ cfg \in Configs
    /\ now = Epoch
    /\ state = "CLOSED"
    /\ failures = 0
    /\ lastFailureTime = 0
    /\ call = [c \in ConcurrentSlots |-> IdleCall]
    /\ hist = [done |-> 0, execFail |-> 0, execOk |-> FALSE, plain500 |-> TRUE]
    /\ cache = <<>>
    /\ out = NoOutput

NextConcurrent ==
    \/ \E c \in ConcurrentSlots : StartConcurrentCall(c)
    \/ \E c \in ConcurrentSlots : BeforeCircuitBreaker(c)
    \/ \E c \in ConcurrentSlots : Execute(c)
    \/ \E c \in ConcurrentSlots : FetchSettle(c)
    \/ \E c \in ConcurrentSlots : BreakerTimeout(c)
    \/ \E c \in ConcurrentSlots : LateFetchSettle(c)
    \/ \E c \in ConcurrentSlots : CatchAfterCircuitBreaker(c)
    \/ \E c \in ConcurrentSlots : Discard(c)
    \/ GetCircuitBreakerState
    \/ Tick

SpecConcurrent == InitConcurrent /\ [][NextConcurrent]_vars

----------------------------------------------------------------------------
(* Properties of the hook contract *)

Done(c) == call[c].pc = "done"

\* how many times hook h was invoked in call k
Count(k, h) == Cardinality({i \in 1..Len(k.hookLog) : k.hookLog[i] = h})

\* h1 was invoked, and h2 only after it
Before(k, h1, h2) ==
    /\ \E i \in 1..Len(k.hookLog) : k.hookLog[i] = h1
    /\ \A i, j \in 1..Len(k.hookLog) :
         k.hookLog[i] = h1 /\ k.hookLog[j] = h2 => i < j

\* the call returned the upstream response
Succeeded(k) == k.pc = "done" /\ k.result.kind = "upstream"

\* the call ended otherwise: a synthesized response, or a rejection
Failed(k) == k.pc = "done" /\ k.result.kind # "upstream"

\* C1: every proxy() call resolves to a Response and never rejects, whichever step
\* fails, a throwing onError or afterCircuitBreakerExecution hook included.
C1_NeverRejects ==
    \A c \in Slots : Done(c) => call[c].result.kind \in {"upstream", "synthesized"}

\* C2: in a call that succeeds (outbound status below 500, no hook throws) with
\* beforeRequest, beforeCircuitBreakerExecution, afterResponse and
\* afterCircuitBreakerExecution supplied, each of the four is invoked exactly once, in
\* that order, and onError is not invoked.
C2_SuccessHookOrder ==
    \A c \in Slots :
      ( /\ Succeeded(call[c])
        /\ call[c].result.status < 500
        /\ call[c].threw = {}
        /\ Hooks \ {"onError"} \subseteq call[c].supplied )
      => call[c].hookLog = <<"beforeRequest", "beforeCircuitBreakerExecution",
                             "afterResponse", "afterCircuitBreakerExecution">>

\* a failure of the dispatch: outbound error, 5xx response, timeout or breaker open
DispatchFailed(k) ==
    /\ Failed(k)
    /\ k.threw = {}
    /\ k.err \in {NetworkError, ServerError, RequestTimeoutError, CircuitTimeoutError,
                  CircuitOpenError}

\* C3: in a call that fails (outbound error, 5xx, timeout or breaker open),
\* afterCircuitBreakerExecution is invoked before onError.
C3_AfterBreakerBeforeOnError ==
    \A c \in Slots :
      ( /\ DispatchFailed(call[c])
        /\ {"afterCircuitBreakerExecution", "onError"} \subseteq call[c].supplied )
      => Before(call[c], "afterCircuitBreakerExecution", "onError")

\* C4: afterResponse is invoked only in calls that succeed: never in a call that ends
\* with a synthesized error response, as when the outbound status is 500 or above.
C4_AfterResponseOnlyOnSuccess ==
    \A c \in Slots :
      (Done(c) /\ call[c].result.kind = "synthesized") => Count(call[c], "afterResponse") = 0

\* C5: afterCircuitBreakerExecution, when supplied, is invoked exactly once in every
\* call, whatever the outcome and whichever other hook threw.
C5_AfterBreakerExactlyOnce ==
    \A c \in Slots :
      (Done(c) /\ "afterCircuitBreakerExecution" \in call[c].supplied)
      => Count(call[c], "afterCircuitBreakerExecution") = 1

\* C6: onError, when supplied, is invoked exactly once, with the error, in every call
\* that fails at any step, and never in a call that returns the upstream response.
C6_OnErrorExactlyOnceOnFailure ==
    \A c \in Slots :
      (Done(c) /\ "onError" \in call[c].supplied)
      => /\ Failed(call[c]) =>
              /\ Count(call[c], "onError") = 1
              /\ call[c].err # NoError
              /\ call[c].onErrorArg = call[c].err
         /\ Succeeded(call[c]) => Count(call[c], "onError") = 0

\* C6's case: failing calls of every kind have run with onError supplied
C6_Witness ==
    \E c \in Slots :
      /\ Done(c)
      /\ "onError" \in call[c].supplied
      /\ call[c].result = Synthesized(502)
      /\ call[c].err = ServerError
      /\ call[c].hookLog = <<"afterResponse", "onError">>

----------------------------------------------------------------------------
(* Properties of the circuit breaker *)

Elapsed == now - lastFailureTime

\* C7: from the initial state, after k consecutive failing executions the breaker is
\* CLOSED with getFailures() = k for every k below failureThreshold, and OPEN once k
\* equals failureThreshold.  (A step that adds a failed execution to a run of failed
\* executions only.)
C7_OpensAtThreshold ==
    [][ ( /\ cfg.enabled
          /\ ~hist'.execOk
          /\ hist'.execFail = hist.execFail + 1
          /\ hist'.execFail <= cfg.failureThreshold )
        => /\ getFailures(Breaker)' = hist'.execFail
           /\ state' = IF hist'.execFail < cfg.failureThreshold THEN "CLOSED" ELSE "OPEN"
      ]_vars

\* C7's case: failureThreshold = 2, two executions have failed and none succeeded
C7_Witness ==
    /\ cfg.enabled
    /\ cfg.failureThreshold = 2
    /\ ~hist.execOk
    /\ hist.execFail = 2
    /\ state = "OPEN"
    /\ failures = 2

\* C8: while the breaker is OPEN and no more than resetTimeout has elapsed since the
\* last recorded failure, execute() rejects with the circuit-open error without
\* invoking the operation, and leaves state, failures and lastFailureTime unchanged.
C8_OpenFailsFast ==
    [][ \A c \in Slots :
          ( /\ cfg.enabled
            /\ call[c].pc = "execute"
            /\ call'[c].pc # "execute"
            /\ state = "OPEN"
            /\ Elapsed <= cfg.resetTimeout )
          => /\ call'[c].exec = "open"
             /\ call'[c].err = CircuitOpenError
             /\ call'[c].fn = "none"
             /\ UNCHANGED <<state, failures, lastFailureTime>>
      ]_vars

\* C8's case: a call was refused at the very end of the reset window
C8_Witness ==
    \E c \in Slots :
      /\ call[c].exec = "open"
      /\ call[c].fn = "none"
      /\ state = "OPEN"
      /\ Elapsed = cfg.resetTimeout

\* C9: once more than resetTimeout has elapsed since the last recorded failure of an
\* OPEN breaker, the state reads as HALF_OPEN (through getCircuitBreakerState and at
\* the admission of the next execution), and the next execution that succeeds sets
\* failures to 0 and the state to CLOSED.
C9_HalfOpenThenClosed ==
    [][ /\ (state = "OPEN" /\ Elapsed > cfg.resetTimeout /\ GetCircuitBreakerState)
           => state' = "HALF_OPEN"
        /\ \A c \in Slots :
             /\ ( /\ cfg.enabled
                  /\ state = "OPEN" /\ Elapsed > cfg.resetTimeout
                  /\ call[c].pc = "execute" /\ call'[c].pc = "racing" )
                => state' = "HALF_OPEN"
             /\ ( /\ cfg.enabled
                  /\ state = "HALF_OPEN"
                  /\ call[c].pc = "racing" /\ call'[c].exec = "resolved" )
                => (failures' = 0 /\ state' = "CLOSED")
      ]_vars

\* C9's case: the breaker had opened, and a later execution succeeded and closed it
C9_Witness ==
    \E c \in Slots :
      /\ cfg.enabled
      /\ hist.execFail >= cfg.failureThreshold
      /\ call[c].exec = "resolved"
      /\ Done(c)
      /\ state = "CLOSED"
      /\ failures = 0

----------------------------------------------------------------------------
(* Properties of the error classification *)

\* the call was admitted by the breaker and failed in executeRequest() before fetch:
\* one of the validations of the method, the target URL, the headers or the query
\* string threw
ValidationFailed(k) ==
    /\ k.pc = "done"
    /\ k.exec = "rejected"
    /\ k.request # NoRequest
    /\ executeRequestBuild(k.method, k.request, <<>>).e # NoError

\* C11: whenever a call fails because of a validation error (method, header name or
\* value, forbidden characters in a query parameter or a raw query string, scheme,
\* protocol override, domain override), the returned response has status 400.
C11_ValidationFailureIs400 ==
    \A c \in Slots :
      (ValidationFailed(call[c]) /\ call[c].result.kind = "synthesized")
      => call[c].result.status = 400

\* a hook threw, proxy() caught its error and answered with a synthesized response
HookFailed(k) ==
    /\ k.pc = "done"
    /\ k.threw # {}
    /\ k.err \in HookErrors
    /\ k.result.kind = "synthesized"

\* C12: if a caller hook throws, whatever error it throws, the synthesized response
\* proxy() returns has status 502.
C12_HookThrowIs502 ==
    \A c \in Slots : HookFailed(call[c]) => call[c].result.status = 502

\* execute() rejected with a timeout: the call-level timer aborted the pending fetch,
\* or the breaker's race timer expired first
TimedOut(k) ==
    /\ k.pc = "done"
    /\ k.exec = "rejected"
    /\ k.err \in {RequestTimeoutError, CircuitTimeoutError}

\* C13: a call returns 504 whenever the call-level timeout aborts the pending outbound
\* call or the breaker's race timer expires before the operation settles; the abort
\* is reported as a timeout, never as a 502.
C13_TimeoutIs504 ==
    \A c \in Slots : TimedOut(call[c]) => call[c].result = Synthesized(504)

----------------------------------------------------------------------------
(* Properties of the breaker's accounting *)

\* the step in which an outbound response settles the race of call c
ResponseSettles(c) ==
    /\ cfg.enabled
    /\ call[c].pc = "racing"
    /\ call'[c].fn = "settled"
    /\ call'[c].fetched.kind = "response"

\* the call's outbound response settled its race
Answered(k) == k.pc = "done" /\ k.fetched.kind = "response"

C15_DisabledBreakerIsInert ==
    ~cfg.enabled
    => /\ state = "CLOSED"
       /\ failures = 0
       /\ \A c \in Slots :
            /\ call[c].exec # "open"
            /\ call[c].err \notin {CircuitOpenError, CircuitTimeoutError}

\* C15's case: a disabled breaker has seen as many executions fail as would open an
\* enabled one, and one succeed
C15_Witness ==
    /\ ~cfg.enabled
    /\ hist.execFail >= cfg.failureThreshold
    /\ cfg.failureThreshold = MaxThreshold
    /\ hist.execOk

----------------------------------------------------------------------------
(* Specification: the calls that reach a URLCache: those of the class      *)
(* itself, and buildTargetURL and clearURLCache of the proxy that owns one *)

\* keys of direct calls: the empty string among them
DirectKeys == {<<>>, <<"a">>, <<"b">>}

SomeURL == NewURL(<<"http", "://", "host", "/", "x">>, <<>>)

\* source arguments of proxy(): absent, a path
Sources == {<<>>, <<"/", "api">>}

\* URLs of inbound requests
InboundURLs == {InboundURL, <<"http", "://", "inbound", "/", "other">>}

\* URLCache.set(key, url)
URLCacheSet ==
    \E key \in DirectKeys :
      /\ cache' = urlCacheSet(cache, cfg.cacheURLs, key, SomeURL)
      /\ out' = [op |-> "set", key |-> key, req |-> <<>>, url |-> SomeURL]
      /\ UNCHANGED <<cfg, now, state, failures, lastFailureTime, call, hist>>

\* URLCache.get(key)
URLCacheGet ==
    \E key \in DirectKeys :
      /\ out' = [op |-> "get", key |-> key, req |-> <<>>,
                 url |-> urlCacheGet(cache, cfg.cacheURLs, key)]
      /\ UNCHANGED <<cfg, now, state, failures, lastFailureTime, call, hist, cache>>

\* URLCache.clear(), clearURLCache(), close() (proxy.ts 447-453)
URLCacheClear ==
    /\ cache' = urlCacheClear(cache)
    /\ out' = [op |-> "clear", key |-> <<>>, req |-> <<>>, url |-> NoURL]
    /\ UNCHANGED <<cfg, now, state, failures, lastFailureTime, call, hist>>

\* executeRequest() building the target of a call (proxy.ts 229-236)
BuildTarget ==
    \E source \in Sources, url \in InboundURLs :
      LET t == buildTargetURL(cache, cfg.cacheURLs, IF source # <<>> THEN source ELSE url,
                              cfg.base)
      IN  /\ cache' = t.cache
          /\ out' = [op |-> "target", key |-> source, req |-> url, url |-> t.url]
          /\ UNCHANGED <<cfg, now, state, failures, lastFailureTime, call, hist>>

CacheConfigs ==
    [failureThreshold : {1}, resetTimeout : {1}, enabled : {TRUE}, followRedirects : {FALSE},
     base : {<<>>, BaseURL}, cacheURLs : 0..MaxCacheSize, logger : {"silent"}]

InitCache ==
    /\ cfg \in CacheConfigs
    /\ now = Epoch
    /\ state = "CLOSED"
    /\ failures = 0
    /\ lastFailureTime = 0
    /\ call = [c \in Slots |-> IdleCall]
    /\ hist = [done |-> 0, execFail |-> 0, execOk |-> FALSE, plain500 |-> TRUE]
    /\ cache = <<>>
    /\ out = NoOutput

NextCache ==
    \/ URLCacheSet
    \/ URLCacheGet
    \/ URLCacheClear
    \/ BuildTarget

SpecCache == InitCache /\ [][NextCache]_vars

\* a set of a key the cache does not hold has just been made on a cache of capacity
\* above 0 (the step)
SetOfNewKey == cfg.cacheURLs > 0 /\ out'.op = "set" /\ ~HasKey(cache, out'.key)

\* C16: eviction is strict insertion-order FIFO.  Inserting a distinct key below
\* capacity retains every key; inserting one at capacity evicts exactly the
\* earliest-inserted remaining key and retains the others; a get never changes which
\* key is evicted next.
C16_EvictsOldestOnly ==
    [][ /\ SetOfNewKey
           => CacheKeys(cache') = IF Len(cache) < cfg.cacheURLs
                                  THEN Append(CacheKeys(cache), out'.key)
                                  ELSE Append(Tail(CacheKeys(cache)), out'.key)
        /\ out'.op = "get" => cache' = cache
      ]_vars

\* C17: after any sequence of set, get and clear with any keys on a cache of capacity
\* c the cache holds at most c entries; with c = 0 it holds none and every get misses.
C17_AtMostCapacity ==
    /\ Len(cache) <= cfg.cacheURLs
    /\ cfg.cacheURLs = 0 => (cache = <<>> /\ (out.op = "get" => out.url = NoURL))

\* C18: when proxy() is called without a source, the target is the configured base,
\* whatever the URL of the inbound request.
C18_NoSourceTargetsBase ==
    (out.op = "target" /\ out.key = <<>> /\ cfg.base # <<>> /\ out.url # NoURL)
    => out.url = NewURL(cfg.base, <<>>)

----------------------------------------------------------------------------
(* Properties of the calls with any request (SpecRequests) *)

\* executeRequest() has read the request of call k, and its method, its target URL,
\* its headers or its query string fails validation
Invalid(k) ==
    /\ k.request # NoRequest
    /\ \/ validateHttpMethod(k.method) # NoError
       \/ buildURL(IF k.request.source # <<>> THEN k.request.source ELSE k.request.url,
                   cfg.base).e # NoError
       \/ recordToHeaders(prepareHeaders(k.request)) # NoError
       \/ addQueryString(k.request.queryString) # NoError

----------------------------------------------------------------------------
(* Properties of the logger.  SpecLogger makes the calls of SpecRequests on *)
(* an instance whose logger throws on every call.                          *)

\* C20: a logger that throws on its log calls does not affect the outcome.  The sink
\* hands nothing to the pipeline but the exception it throws, so the outcome differs
\* from that with a silent logger only where that exception reaches proxy(): no call
\* ever catches it or hands it to onError, and a call is rejected only with the
\* error of a hook that threw.
C20_LoggerErrorNeverEscapes ==
    \A c \in Slots :
      /\ call[c].err # LoggerError
      /\ call[c].onErrorArg # LoggerError
      /\ (call[c].result = Rejected => call[c].threw # {})

\* with the throwing logger, one call was served by the upstream and a later one went
\* through the catch block and was answered
C20_Witness ==
    /\ sinkCall = LoggerError
    /\ hist.execOk
    /\ cache # <<>>
    /\ \E c \in Slots :
         Done(c) /\ call[c].err # NoError /\ call[c].result.kind = "synthesized"

----------------------------------------------------------------------------
(* Specification: one direct call of an exported function of               *)
(* src/src/utils.ts.  out is the call: the function, its arguments and,     *)
(* once it has run (done), the error it threw (NoError: none) and what it   *)
(* returned.                                                               *)

RECURSIVE SeqsUpTo(_, _)
SeqsUpTo(S, n) ==
    IF n = 0 THEN {<<>>}
    ELSE LET shorter == SeqsUpTo(S, n - 1)
         IN  shorter \cup {Append(s, t) : s \in shorter, t \in S}

\* method strings: words in any letter case, white space, line terminators, null bytes
MethodStrings == SeqsUpTo(MethodWords \cup {CR, LF, NUL, SP, TAB}, MaxMethodLen)

\* what a source begins with, and what follows: nothing, a host-like word, a path
\* below one, or a URL with a scheme
SourceLeads == SeqsUpTo({"/", "\\", SP}, MaxLeadLen)
SourceBodies ==
    {<<>>, <<"evil">>, <<"evil", "/", "x">>}
    \cup {<<scheme, "://", "evil", "/", "x">> :
            scheme \in {"http", "https", "HTTP", "ftp", "FTP", "file"}}
    \cup {<<"data", ":", "x">>, <<"javascript", ":", "x">>}
SourceStrings == {lead \o body : lead \in SourceLeads, body \in SourceBodies}

\* the base argument: absent, or a URL
Bases == {<<>>, BaseURL, <<"https", "://", "base">>, <<"ftp", "://", "base">>}

\* paths: slashes, dots, two words, null bytes
PathStrings == SeqsUpTo({"/", ".", "files", "etc", NUL}, MaxPathLen)

\* the allowedPrefix argument: empty, blank, a directory with and without its slash
Prefixes == {<<>>, <<SP>>, <<"/", "files", "/">>, <<"/", "files">>}

\* names and values: a word, and the three forbidden characters, anywhere
ValueStrings == SeqsUpTo({"a", CR, LF, NUL}, MaxValueLen)

GoodEntry == Header(<<"x">>, <<"v">>)

\* records of headers: one entry of any name and value, alone, or before or after
\* an entry that passes
HeaderRecords ==
    {<<>>}
    \cup UNION {{<<Header(n, v)>>, <<GoodEntry, Header(n, v)>>, <<Header(n, v), GoodEntry>>} :
                n \in ValueStrings, v \in ValueStrings}

\* the params argument: a raw string, or a record with one entry of any name and
\* string value or of any array of up to two strings, alone or after one that passes
QueryParams ==
    {RawQuery(text) : text \in ValueStrings \cup {<<"?">> \o t : t \in ValueStrings}}
    \cup {QueryRecord(<<>>)}
    \cup UNION {{QueryRecord(<<Header(n, v)>>), QueryRecord(<<GoodEntry, Header(n, v)>>),
                 QueryRecord(<<ArrayParam(<<"k">>, <<n, v>>)>>)} :
                n \in ValueStrings, v \in ValueStrings}
    \cup UNION {{QueryRecord(<<ArrayParam(<<"k">>, <<v>>)>>),
                 QueryRecord(<<GoodEntry, ArrayParam(<<"k">>, <<v>>)>>)} :
                v \in ValueStrings}

NoHeaders == <<[name |-> <<"none">>, value |-> <<>>]>>
NoString == <<"undefined">>

\* the calls the model makes
UtilsCalls ==
    [op : {"validateHttpMethod"}, done : {FALSE}, method : MethodStrings, e : {NoError}]
    \cup [op : {"buildURL"}, done : {FALSE}, source : SourceStrings, base : Bases,
          e : {NoError}, url : {NoURL}]
    \cup [op : {"normalizeSecurePath"}, done : {FALSE}, inputPath : PathStrings,
          allowedPrefix : Prefixes, e : {NoError}, path : {<<>>}]
    \cup [op : {"recordToHeaders"}, done : {FALSE}, record : HeaderRecords,
          e : {NoError}, headers : {NoHeaders}]
    \cup [op : {"buildQueryString"}, done : {FALSE}, params : QueryParams,
          e : {NoError}, query : {NoString}]

\* validateHttpMethod(method)
ValidateHttpMethod ==
    /\ out.op = "validateHttpMethod" /\ ~out.done
    /\ out' = [out EXCEPT !.done = TRUE, !.e = validateHttpMethod(out.method)]
    /\ UNCHANGED <<cfg, now, state, failures, lastFailureTime, call, hist, cache>>

\* buildURL(source, base)
BuildURL ==
    /\ out.op = "buildURL" /\ ~out.done
    /\ LET b == buildURL(out.source, out.base)
       IN  out' = [out EXCEPT !.done = TRUE, !.e = b.e, !.url = b.url]
    /\ UNCHANGED <<cfg, now, state, failures, lastFailureTime, call, hist, cache>>

\* normalizeSecurePath(inputPath, allowedPrefix)
NormalizeSecurePath ==
    /\ out.op = "normalizeSecurePath" /\ ~out.done
    /\ LET n == normalizeSecurePath(out.inputPath, out.allowedPrefix)
       IN  out' = [out EXCEPT !.done = TRUE, !.e = n.e, !.path = n.path]
    /\ UNCHANGED <<cfg, now, state, failures, lastFailureTime, call, hist, cache>>

\* recordToHeaders(record): the Headers object holds the entries, all validated
RecordToHeaders ==
    /\ out.op = "recordToHeaders" /\ ~out.done
    /\ LET e == recordToHeaders(out.record)
       IN  out' = [out EXCEPT !.done = TRUE, !.e = e,
                              !.headers = IF e = NoError THEN out.record ELSE NoHeaders]
    /\ UNCHANGED <<cfg, now, state, failures, lastFailureTime, call, hist, cache>>

\* buildQueryString(params)
BuildQueryString ==
    /\ out.op = "buildQueryString" /\ ~out.done
    /\ LET e == buildQueryString(out.params)
       IN  out' = [out EXCEPT !.done = TRUE, !.e = e,
                              !.query = IF e = NoError THEN queryStringOf(out.params)
                                        ELSE NoString]
    /\ UNCHANGED <<cfg, now, state, failures, lastFailureTime, call, hist, cache>>

InitUtils ==
    /\ cfg \in {f \in CacheConfigs : f.base = <<>> /\ f.cacheURLs = 0}
    /\ now = Epoch
    /\ state = "CLOSED"
    /\ failures = 0
    /\ lastFailureTime = 0
    /\ call = [c \in Slots |-> IdleCall]
    /\ hist = [done |-> 0, execFail |-> 0, execOk |-> FALSE, plain500 |-> TRUE]
    /\ cache = <<>>
    /\ out \in UtilsCalls

NextUtils ==
    \/ ValidateHttpMethod
    \/ BuildURL
    \/ NormalizeSecurePath
    \/ RecordToHeaders
    \/ BuildQueryString

SpecUtils == InitUtils /\ [][NextUtils]_vars

----------------------------------------------------------------------------
(* Properties of validateHttpMethod *)

\* C21: validateHttpMethod rejects every method string that contains a carriage
\* return, a line feed or a null byte anywhere in it, its start and end included.
C21_ControlCharactersRejected ==
    (/\ out.op = "validateHttpMethod" /\ out.done
     /\ Has(out.method, CR) \/ Has(out.method, LF) \/ Has(out.method, NUL))
    => out.e # NoError

\* the method is one word around which there is white space only
OneWord(method, words) ==
    \E i \in 1..Len(method) :
      /\ method[i] \in words
      /\ \A j \in 1..Len(method) : j # i => method[j] \in {SP, TAB}

\* C22: a method string free of CR, LF and NUL is accepted if and only if its
\* upper-cased form, trimmed of white space, is one of GET, POST, PUT, PATCH, DELETE,
\* HEAD, OPTIONS: CONNECT and TRACE are rejected in any letter case, get is accepted.
C22_AcceptedIffAllowedIgnoringCase ==
    (/\ out.op = "validateHttpMethod" /\ out.done
     /\ ~(Has(out.method, CR) \/ Has(out.method, LF) \/ Has(out.method, NUL)))
    => /\ out.e = NoError <=> OneWord(out.method, {"GET", "get", "Get"})
       /\ out.method \in {<<"CONNECT">>, <<"connect">>, <<"TRACE">>, <<"Trace">>}
            => out.e = MethodNotAllowedError(out.method)

\* get, in lower case and between white space, was accepted
C22_Witness ==
    /\ out.op = "validateHttpMethod" /\ out.done
    /\ out.method = <<SP, "get", TAB>>
    /\ out.e = NoError

----------------------------------------------------------------------------
(* Properties of buildURL *)

BuiltURL == out.op = "buildURL" /\ out.done

\* the source has a scheme of its own: it is absolute
HasScheme(source) == Has(source, "://") \/ Has(source, ":")

\* C23: every URL returned by buildURL, with or without a base, has scheme http or
\* https; a source that resolves to any other scheme is rejected with an error naming
\* that scheme.
C23_OnlyHttpAndHttps ==
    BuiltURL
    => /\ out.e = NoError => out.url.protocol \in {"http", "https"}
       /\ \A scheme \in {"ftp", "file", "data", "javascript"}, sep \in {"://", ":"} :
            StartsWith(out.source, <<scheme, sep>>)
            => out.e = UnsupportedProtocolError(scheme)

\* ftp://evil/x was refused on a base of scheme http, and so was FTP://evil/x without one
C23_Witness ==
    /\ BuiltURL
    /\ out.e = UnsupportedProtocolError("ftp")
    /\ \/ out.base = BaseURL /\ out.source = <<"ftp", "://", "evil", "/", "x">>
       \/ out.base = <<>> /\ out.source = <<"FTP", "://", "evil", "/", "x">>

\* C24: with a base present, a relative source never yields a URL whose host differs
\* from the base host: a source beginning with exactly two slashes is rejected as a
\* protocol override, one beginning with three or more is accepted with its leading
\* slashes collapsed to one and resolved on the base host, and any other
\* leading-slash source that would resolve to another host is rejected as a domain
\* override.
C24_RelativeStaysOnBaseHost ==
    (BuiltURL /\ out.base # <<>> /\ ~HasScheme(out.source))
    => /\ out.e = NoError => out.url.hostname = out.base[3]
       /\ (StartsWith(out.source, <<"/", "/">>) /\ ~StartsWith(out.source, <<"/", "/", "/">>))
            => out.e = ProtocolOverrideError
       /\ StartsWith(out.source, <<"/", "/", "/">>)
            => /\ out.e \in {NoError, UnsupportedProtocolError(out.base[1])}
               /\ out.e = NoError
                    => out.url = [protocol |-> out.base[1], hostname |-> out.base[3], port |-> "",
                                  pathname |-> <<"/">> \o StripSlashes(out.source)]
       /\ (StartsWith(out.source, <<"/">>) /\ ~StartsWith(out.source, <<"/", "/">>)
           /\ NewURL(out.source, out.base) # NoURL
           /\ NewURL(out.source, out.base).hostname # out.base[3])
            => out.e = DomainOverrideError

----------------------------------------------------------------------------
(* Properties of normalizeSecurePath *)

Normalized == out.op = "normalizeSecurePath" /\ out.done

\* the arguments pass the tests made before the path is normalized
PathArgumentsOK ==
    /\ out.inputPath # <<>>
    /\ out.allowedPrefix \notin {<<>>, <<SP>>}
    /\ ~Has(out.inputPath, NUL)

\* the segments of a path that remain when each ".." takes away the nearest segment
\* kept before it, read from the end: skip is the number of ".." still to be served
RECURSIVE Remaining(_, _)
Remaining(segments, skip) ==
    IF segments = <<>> THEN <<>>
    ELSE LET last == segments[Len(segments)]
             rest == SubSeq(segments, 1, Len(segments) - 1)
         IN  IF last \in {<<>>, Dot} THEN Remaining(rest, skip)
             ELSE IF last = DotDot THEN Remaining(rest, skip + 1)
             ELSE IF skip > 0 THEN Remaining(rest, skip - 1)
             ELSE Append(Remaining(rest, 0), last)

\* C25: whenever normalizeSecurePath returns, the result starts with allowedPrefix,
\* has a single leading slash and holds no empty, "." or ".." segment; each ".." pops
\* the last segment retained and one with nothing to pop is dropped; and the call
\* fails with a traversal error exactly when the reassembled path does not start
\* with allowedPrefix.
C25_NormalizedWithinPrefix ==
    Normalized
    => LET reassembled == <<"/">> \o join(Remaining(split(out.inputPath), 0))
       IN  /\ out.e = NoError
                => /\ StartsWith(out.path, out.allowedPrefix)
                   /\ out.path[1] = "/"
                   /\ \A i \in 2..Len(out.path) : ~(out.path[i - 1] = "/" /\ out.path[i] = "/")
                   /\ Len(out.path) > 1 => out.path[Len(out.path)] # "/"
                   /\ \A i \in 1..Len(split(out.path)) :
                        split(out.path)[i] \notin {Dot, DotDot}
                   /\ out.path = reassembled
           /\ PathArgumentsOK
                => (out.e = PathTraversalError(out.allowedPrefix)
                      <=> ~StartsWith(reassembled, out.allowedPrefix))
           /\ ~PathArgumentsOK => out.e \notin {NoError, PathTraversalError(out.allowedPrefix)}

\* etc/../files was returned as /files
C25_Witness ==
    /\ Normalized
    /\ out.inputPath = <<"etc", "/", ".", ".", "/", "files">>
    /\ out.allowedPrefix = <<"/", "files">>
    /\ out.e = NoError
    /\ out.path = <<"/", "files">>

----------------------------------------------------------------------------
(* Properties of recordToHeaders and buildQueryString *)

\* some name, value or array element of the entries holds a CR, an LF or a NUL
EntriesForbidden(entries) ==
    \E i \in 1..Len(entries) :
      \/ HasForbidden(entries[i].name)
      \/ IF IsArray(entries[i])
         THEN \E j \in 1..Len(entries[i].items) : HasForbidden(entries[i].items[j])
         ELSE HasForbidden(entries[i].value)

\* C26: recordToHeaders and buildQueryString reject any input in which a header name,
\* a header value, a query parameter name, a query parameter value, an element of an
\* array-valued parameter or a raw query string holds a carriage return, a line feed
\* or a null byte; no such string reaches the headers or the query they return.
C26_ForbiddenCharactersRejected ==
    /\ (out.op = "recordToHeaders" /\ out.done)
         => /\ EntriesForbidden(out.record) => (out.e # NoError /\ out.headers = NoHeaders)
            /\ ~EntriesForbidden(out.headers)
    /\ (out.op = "buildQueryString" /\ out.done)
         => /\ (IF out.params.kind = "string"
                THEN HasForbidden(out.params.text)
                ELSE EntriesForbidden(out.params.entries))
              => (out.e # NoError /\ out.query = NoString)
            /\ ~HasForbidden(out.query)

\* a line feed in the second element of an array-valued parameter was refused, or a
\* null byte in the value of a header that follows one that passes
C26_Witness ==
    \/ /\ out.op = "buildQueryString" /\ out.done
       /\ out.params = QueryRecord(<<ArrayParam(<<"k">>, <<<<"a">>, <<"a", LF>>>>)>>)
       /\ out.e # NoError
    \/ /\ out.op = "recordToHeaders" /\ out.done
       /\ out.record = <<GoodEntry, Header(<<"a">>, <<NUL, "a">>)>>
       /\ out.e # NoError

----------------------------------------------------------------------------
(* Properties of the failure counter *)

\* the step in which the execution of call c succeeds
ExecutionSucceeds(c) ==
    /\ cfg.enabled
    /\ call[c].pc = "racing"
    /\ call'[c].exec = "resolved"

\* C27: the failure counter counts consecutive failures: a successful execution while
\* CLOSED resets it to zero, so that the breaker opens only when failureThreshold
\* executions fail with no successful execution in between.
C27_SuccessResetsCounter ==
    [][ \A c \in Slots :
          (ExecutionSucceeds(c) /\ state = "CLOSED") => failures' = 0 ]_vars

----------------------------------------------------------------------------
(* Properties of concurrent calls *)

\* C28: while the breaker is HALF_OPEN it admits a single trial: at most one operation
\* it admitted as HALF_OPEN is in flight, a second execute() that arrives before the
\* trial settles not being dispatched to its operation.
C28_SingleTrial ==
    \A c, d \in ConcurrentSlots : (call[c].trial /\ call[d].trial) => c = d

----------------------------------------------------------------------------
(* Properties of the timers *)

\* execute() of call k has settled with neither timer having fired
SettledWithoutTimeout(k) ==
    /\ k.exec \in {"resolved", "rejected"}
    /\ k.raceTimer # "fired"
    /\ k.abortTimer # "fired"
    /\ k.fn # "fetching"

\* C29: after a call settles on the non-timeout path (the operation resolved or
\* rejected before any timer fired), no timer started for that call remains pending:
\* the breaker's race timer and the call-level abort timer have both been cancelled.
C29_NoTimerLeftPending ==
    \A c \in Slots :
      SettledWithoutTimeout(call[c])
      => (call[c].raceTimer # "pending" /\ call[c].abortTimer # "pending")

----------------------------------------------------------------------------
(* Order of the method validation and the hooks *)

\* the inbound method of call k is refused by validateHttpMethod
MethodRefused(k) == k.pc # "idle" /\ validateHttpMethod(k.method) # NoError

\* C30: the inbound method is validated before any hook runs: for a request whose
\* method is not allowed, neither beforeRequest nor beforeCircuitBreakerExecution
\* is invoked, and the call is rejected with 400 whatever the breaker state is.
C30_MethodValidatedBeforeHooks ==
    \A c \in Slots :
      MethodRefused(call[c])
      => /\ Count(call[c], "beforeRequest") = 0
         /\ Count(call[c], "beforeCircuitBreakerExecution") = 0
         /\ Done(c) => call[c].result = Synthesized(400)

----------------------------------------------------------------------------
(* Specification: the CircuitBreaker on its own.  Any number of execute()  *)
(* calls may await their race at once; getState() and getFailures() are    *)
(* called, and the clock advances, at any moment between their steps.  A   *)
(* slot holds one execute() call: "racing" while it awaits, and after that *)
(* how it settled.                                                         *)

\* what a getter returned
Returned(op, value) == [NoOutput EXCEPT !.op = op, !.key = <<value>>]

\* execute(fn) up to the race (url-cache.ts 57-81): refused, or fn is called
BreakerExecute(c) ==
    /\ call[c].pc = "idle"
    /\ hist.done < MaxBreakerCalls
    /\ LET adm == executeAdmit(Breaker, now)
       IN  /\ state' = adm.b.state
           /\ failures' = adm.b.failures
           /\ lastFailureTime' = adm.b.lastFailureTime
           /\ IF adm.admitted
              THEN /\ call' = [call EXCEPT ![c] =
                                 [IdleCall EXCEPT !.pc = "racing", !.fn = "fetching",
                                                  !.trial = cfg.enabled
                                                            /\ adm.b.state = "HALF_OPEN"]]
                   /\ hist' = hist
              ELSE /\ call' = [call EXCEPT ![c] =
                                 [IdleCall EXCEPT !.exec = "open", !.err = CircuitOpenError]]
                   /\ hist' = [hist EXCEPT !.done = @ + 1]
    /\ UNCHANGED <<cfg, now, cache, out>>

\* the race settles (url-cache.ts 83-91): fn resolved first (ok), or fn rejected or
\* the timer fired first
BreakerSettle(c) ==
    /\ call[c].pc = "racing"
    /\ \E ok \in BOOLEAN :
         LET b == executeSettle(Breaker, now, ok)
         IN  /\ state' = b.state
             /\ failures' = b.failures
             /\ lastFailureTime' = b.lastFailureTime
             /\ call' = [call EXCEPT ![c] =
                           [IdleCall EXCEPT !.exec = IF ok THEN "resolved" ELSE "rejected"]]
             /\ hist' = [hist EXCEPT !.done = @ + 1,
                                     !.execFail = IF ok THEN @ ELSE @ + 1,
                                     !.execOk = @ \/ ok]
    /\ UNCHANGED <<cfg, now, cache, out>>

\* getState() (url-cache.ts 110-120)
GetState ==
    LET b == getState(Breaker, now)
    IN  /\ state' = b.state
        /\ failures' = b.failures
        /\ lastFailureTime' = b.lastFailureTime
        /\ out' = Returned("getState", b.state)
        /\ UNCHANGED <<cfg, now, call, hist, cache>>

\* getFailures() (url-cache.ts 122-124)
GetFailures ==
    /\ out' = Returned("getFailures", getFailures(Breaker))
    /\ UNCHANGED <<cfg, now, state, failures, lastFailureTime, call, hist, cache>>

InitBreaker ==
    /\ cfg \in {f \in Configs : ~f.followRedirects}
    /\ now = Epoch
    /\ state = "CLOSED"
    /\ failures = 0
    /\ lastFailureTime = 0
    /\ call = [c \in ConcurrentSlots |-> IdleCall]
    /\ hist = [done |-> 0, execFail |-> 0, execOk |-> FALSE, plain500 |-> TRUE]
    /\ cache = <<>>
    /\ out = NoOutput

NextBreaker ==
    \/ \E c \in ConcurrentSlots : BreakerExecute(c)
    \/ \E c \in ConcurrentSlots : BreakerSettle(c)
    \/ GetState
    \/ GetFailures
    \/ Tick

SpecBreaker == InitBreaker /\ [][NextBreaker]_vars

----------------------------------------------------------------------------
(* Properties of the CircuitBreaker under concurrent use *)

\* a step of a getter: nothing but the breaker's fields and the value returned changes
GetterStep == UNCHANGED <<cfg, now, call, hist, cache>> /\ out'.op \in {"getState", "getFailures"}

\* C31: getFailures() never changes the breaker; getState() changes nothing except
\* moving the state from OPEN to HALF_OPEN when more than resetTimeout has elapsed
\* since the last recorded failure, and never changes the failure counter or the
\* last-failure timestamp.
C31_GettersFrame ==
    [][GetterStep
       => /\ failures' = failures
          /\ lastFailureTime' = lastFailureTime
          /\ out'.op = "getFailures" => state' = state /\ out'.key = <<failures>>
          /\ out'.op = "getState"
             => /\ out'.key = <<state'>>
                /\ state' = IF state = "OPEN" /\ now - lastFailureTime > cfg.resetTimeout
                            THEN "HALF_OPEN" ELSE state]_vars

\* getState() has just moved the breaker out of OPEN
C31_Witness ==
    /\ out.op = "getState"
    /\ out.key = <<"HALF_OPEN">>
    /\ state = "HALF_OPEN"
    /\ \A c \in ConcurrentSlots : call[c].pc = "idle" /\ ~call[c].trial
    /\ hist.execFail = cfg.failureThreshold

\* execute() records a failure in this step
FailureRecorded == cfg.enabled /\ hist'.execFail = hist.execFail + 1

\* C32: a failure recorded while the breaker is already OPEN (from an operation
\* admitted before it opened) increments the failure counter but leaves the
\* last-failure timestamp unchanged, so it does not postpone the moment at which
\* the breaker becomes HALF_OPEN.
C32_FailureWhileOpenKeepsTimestamp ==
    [][(FailureRecorded /\ state = "OPEN")
       => /\ failures' = failures + 1
          /\ lastFailureTime' = lastFailureTime
          /\ state' = "OPEN"
          /\ getState(Breaker, now).state = getState(Breaker, now)'.state]_vars

\* two operations were admitted while CLOSED; the first failure opened the breaker,
\* the second was recorded while it was OPEN, and the window still runs from the first
C32_Witness ==
    /\ cfg.enabled
    /\ cfg.failureThreshold = 1
    /\ failures = 2
    /\ state = "OPEN"
    /\ \E c \in ConcurrentSlots : call[c].exec = "rejected"
    /\ lastFailureTime < now
    /\ now - lastFailureTime <= cfg.resetTimeout

\* C33: with failureThreshold at least 1, every reachable breaker state satisfies:
\* CLOSED implies failures < failureThreshold, and OPEN or HALF_OPEN implies
\* failures >= failureThreshold, under any interleaving of concurrent executions,
\* getState calls and clock advances.
C33_StateMatchesCounter ==
    /\ cfg.failureThreshold >= 1
    /\ state \in {"CLOSED", "OPEN", "HALF_OPEN"}
    /\ state = "CLOSED" => failures < cfg.failureThreshold
    /\ state \in {"OPEN", "HALF_OPEN"} => failures >= cfg.failureThreshold

\* the breaker was closed again by a trial while another operation still awaits,
\* and a failure has been recorded since
C33_Witness ==
    /\ state = "CLOSED"
    /\ hist.execOk
    /\ failures = 1
    /\ cfg.failureThreshold = 2
    /\ hist.execFail > cfg.failureThreshold
    /\ \E c \in ConcurrentSlots : call[c].pc = "racing"

----------------------------------------------------------------------------
(* Properties of what the breaker counts *)

\* in this step executeRequest() of call c throws from one of its validations
\* (method, URL, headers, query string), before any fetch
ValidationRejects(c) ==
    /\ call[c].pc = "execute"
    /\ call'[c].exec = "rejected"
    /\ call'[c].fn = "none"

\* in this step fetch of call c answers below 500 and the afterResponse hook throws
AfterResponseThrows(c) ==
    /\ call[c].pc = "racing"
    /\ call'[c].pc # "racing"
    /\ call'[c].fetched.kind = "response"
    /\ call'[c].fetched.status < 500
    /\ "afterResponse" \in call'[c].threw

\* C34: the breaker's failure counter and state are changed only by failures of the
\* outbound call itself (network error, timeout, 5xx status): a proxy call rejected
\* by method, URL, header or query validation, or whose afterResponse hook throws,
\* leaves the failure counter and state unchanged and so can never open the circuit.
C34_OnlyOutboundFailuresCount ==
    [][\A c \in Slots :
         (ValidationRejects(c) \/ AfterResponseThrows(c))
         => /\ failures' = failures
            /\ state' = "OPEN" => state = "OPEN"]_vars

----------------------------------------------------------------------------
(* Specification: target resolutions through one instance, each call with  *)
(* its own source and its own base (options.base)                          *)

\* source arguments of the resolutions
TargetSources == {<<"/", "x">>, <<"/", "y">>, <<"8080", ":", "/", "x">>}

\* options.base of the resolutions: absent, the host of the instance with a port
TargetBases == {<<>>, BaseURL \o <<":", "8080">>}

\* executeRequest() building the target of a call made with options.base
\* (proxy.ts 229-236): the base is `base || this.options.base` (proxy.ts 347)
ResolveTarget ==
    \E source \in TargetSources, base \in TargetBases :
      LET b == IF base # <<>> THEN base ELSE cfg.base
          t == buildTargetURL(cache, cfg.cacheURLs, source, b)
      IN  /\ cache' = t.cache
          /\ out' = [op |-> "resolve", key |-> source, req |-> b, url |-> t.url]
          /\ UNCHANGED <<cfg, now, state, failures, lastFailureTime, call, hist>>

InitTargets ==
    /\ cfg \in {f \in CacheConfigs : f.base = BaseURL}
               \cup {[f EXCEPT !.cacheURLs = DefaultCacheURLs] :
                       f \in {g \in CacheConfigs : g.base = BaseURL}}
    /\ now = Epoch
    /\ state = "CLOSED"
    /\ failures = 0
    /\ lastFailureTime = 0
    /\ call = [c \in Slots |-> IdleCall]
    /\ hist = [done |-> 0, execFail |-> 0, execOk |-> FALSE, plain500 |-> TRUE]
    /\ cache = <<>>
    /\ out = NoOutput

NextTargets ==
    \/ ResolveTarget
    \/ URLCacheClear

SpecTargets == InitTargets /\ [][NextTargets]_vars

\* C35: for any sequence of target resolutions through one FetchProxy instance,
\* resolving a (source, base) pair returns a URL equal to what buildURL(source, base)
\* returns on its own: distinct (base, source) pairs never share a cache key, so the
\* cached result of one pair is never returned for another.
C35_ResolvedAsBuildURL ==
    out.op = "resolve" => out.url = buildURL(out.key, out.req).url

----------------------------------------------------------------------------
(* Properties of the HALF_OPEN trial under concurrent use *)

\* in this step the operation of slot c, admitted while HALF_OPEN, resolves first
TrialSucceeds(c) ==
    /\ call[c].pc = "racing"
    /\ call[c].trial
    /\ call'[c].exec = "resolved"

\* C36: the breaker moves from HALF_OPEN to CLOSED (resetting the failure counter)
\* only on the success of an operation that was admitted while the breaker was
\* HALF_OPEN; the late success of an operation admitted earlier, while the breaker
\* was still CLOSED, never closes the circuit.
C36_OnlyTrialCloses ==
    [][(state = "HALF_OPEN" /\ state' = "CLOSED")
       => \E c \in ConcurrentSlots : TrialSucceeds(c)]_vars

----------------------------------------------------------------------------
(* Properties of a call that has returned *)

\* C37: no hook of a proxy call is invoked after that call has returned its
\* response: in particular, when the breaker's race timer wins and proxy returns
\* 504, the still-running outbound operation never later triggers afterResponse
\* for that call.
C37_NoHookAfterReturn ==
    [][\A c \in Slots :
         (call[c].pc = "done" /\ call'[c].pc = "done")
         => call'[c].hookLog = call[c].hookLog]_vars

----------------------------------------------------------------------------
(* Specification: proxy() calls made with options.request.  The calls have *)
(* no hooks; what options.request holds is something fetch accepts.        *)

MaxOptionCalls == 2

\* the RequestInit given as options.request: nothing, a method (an allowed one or
\* one that validateHttpMethod refuses), headers
RequestInits ==
    { NoInit,
      [NoInit EXCEPT !.method = <<"POST">>],
      [NoInit EXCEPT !.method = <<"PROPFIND">>],
      [NoInit EXCEPT !.hasHeaders = TRUE, !.headers = <<Header(<<"x", "id">>, <<"v">>)>>] }

OptionRequests == {[PlainRequest EXCEPT !.request = i] : i \in RequestInits}

StartOptionCall(c) == StartCallWith(c, MaxOptionCalls, {{}}, Methods)

ExecuteOptions(c) == ExecuteWith(c, OptionRequests)

NextOptions ==
    \/ \E c \in Slots : StartOptionCall(c)
    \/ \E c \in Slots : BeforeCircuitBreaker(c)
    \/ \E c \in Slots : ExecuteOptions(c)
    \/ \E c \in Slots : FetchSettle(c)
    \/ \E c \in Slots : BreakerTimeout(c)
    \/ \E c \in Slots : LateFetchSettle(c)
    \/ \E c \in Slots : CatchAfterCircuitBreaker(c)
    \/ \E c \in Slots : Discard(c)
    \/ GetCircuitBreakerState
    \/ Tick

SpecOptions == Init /\ [][NextOptions]_vars

\* fetch has been called for call k
FetchIssued(k) == k.fn # "none"

\* C38: every outbound fetch issued by proxy carries a method that passed
\* validateHttpMethod and headers that passed recordToHeaders validation, whatever
\* request options the caller supplies, including a method or headers given in
\* options.request.
C38_FetchCarriesValidated ==
    \A c \in Slots :
      FetchIssued(call[c])
      => /\ validateHttpMethod(call[c].sent.method) = NoError
         /\ recordToHeaders(call[c].sent.headers) = NoError

----------------------------------------------------------------------------
(* Specification with fairness: proxy() calls without hooks, to an upstream *)
(* that may never answer.  The steps of proxy() that follow an await whose  *)
(* promise has settled are taken, and a timer that is pending fires: the    *)
(* event loop runs them.  Nothing makes fetch settle.                       *)

MaxLiveCalls == 2

StartLiveCall(c) == StartCallWith(c, MaxLiveCalls, {{}}, {<<"GET">>})

NextLive ==
    \/ \E c \in Slots : StartLiveCall(c)
    \/ \E c \in Slots : BeforeCircuitBreaker(c)
    \/ \E c \in Slots : Execute(c)
    \/ \E c \in Slots : FetchSettle(c)
    \/ \E c \in Slots : BreakerTimeout(c)
    \/ \E c \in Slots : LateFetchSettle(c)
    \/ \E c \in Slots : CatchAfterCircuitBreaker(c)
    \/ \E c \in Slots : Discard(c)
    \/ GetCircuitBreakerState
    \/ Tick

LiveFairness ==
    \A c \in Slots :
      /\ WF_vars(BeforeCircuitBreaker(c))
      /\ WF_vars(Execute(c))
      /\ WF_vars(BreakerTimeout(c))
      /\ WF_vars(CatchAfterCircuitBreaker(c))

SpecLive == Init /\ [][NextLive]_vars /\ LiveFairness

----------------------------------------------------------------------------
(* Properties of a failed trial *)

\* in this step the execution of call c fails while the breaker is HALF_OPEN
TrialFails(c) ==
    /\ cfg.enabled
    /\ state = "HALF_OPEN"
    /\ call[c].pc = "racing"
    /\ call'[c].exec = "rejected"

\* a call was refused after a failed trial
RefusedAfterTrial(k) ==
    /\ k.exec = "open"
    /\ hist.execFail > cfg.failureThreshold

\* C40: a failed execution while the breaker is HALF_OPEN returns it to OPEN and
\* restarts the reset window from the time of that failure, so that subsequent
\* calls fail fast again until a further resetTimeout has elapsed.
C40_FailedTrialReopens ==
    [][\A c \in Slots :
         /\ TrialFails(c)
            => /\ state' = "OPEN"
               /\ lastFailureTime' = now
               /\ failures' = failures + 1
               /\ ~executeAdmit(Breaker, now)'.admitted
         /\ (call[c].pc = "execute" /\ call'[c].pc # "execute" /\ cfg.enabled
             /\ state = "OPEN" /\ hist.execFail > cfg.failureThreshold)
            => (call'[c].exec = "open" <=> now - lastFailureTime <= cfg.resetTimeout)
      ]_vars

\* the trial failed, and the next call, made within resetTimeout of that failure
\* and more than resetTimeout after the failure that had opened the breaker, was refused
C40_Witness ==
    \E c \in Slots :
      /\ cfg.enabled
      /\ RefusedAfterTrial(call[c])
      /\ hist.execFail = cfg.failureThreshold + 1
      /\ ~hist.execOk
      /\ state = "OPEN"
      /\ now - lastFailureTime <= cfg.resetTimeout

====
